---- MODULE Spec2Model ----
(***************************************************************************)
(* Verification model of the scan-report validation engine                 *)
(* (src/src/transfer.py, ScanReportProcessor), its schemas                 *)
(* (src/src/schema.py) and the schema pre-check of src/check_schema.py.    *)
(*                                                                         *)
(* A text value is a sequence of one-character strings, so that trimming,  *)
(* pattern matching, parsing and formatting are computed character by      *)
(* character.  A cell of a DataFrame is a record with a kind: "na"         *)
(* (pd.NA / NaN / NaT), "str", "int", "date" or "ts".  A DataFrame is a    *)
(* record [cols, rows]; a row carries its pandas index label (idx) and a   *)
(* function from column names to cells.                                    *)
(***************************************************************************)
EXTENDS FiniteSets, Integers, Sequences, TLC

(***************************************************************************)
(* Bounds of the model.                                                    *)
(***************************************************************************)
MaxRows == 2
MaxDeviations == 2
MaxHeaders == 3
MaxEarlier == 2
MaxRetries == 3

(***************************************************************************)
(* Text helpers.                                                           *)
(***************************************************************************)
\* a function over 1..n, as the sequence of its values
ToSeq(f) == SubSeq(f, 1, Len(f))

Range(s) == {s[i] : i \in 1..Len(s)}

\* a function over column names, as the row of its values
ToRow(f) == f @@ <<>>

Digits == <<"0", "1", "2", "3", "4", "5", "6", "7", "8", "9">>

IsDigit(ch) == ch \in {Digits[d] : d \in 1..Len(Digits)}

DigitVal(ch) == (CHOOSE d \in 1..Len(Digits) : Digits[d] = ch) - 1

AllDigits(s) == \A i \in 1..Len(s) : IsDigit(s[i])

RECURSIVE DigitsVal(_)
DigitsVal(s) ==
    IF s = <<>> THEN 0
    ELSE DigitsVal(SubSeq(s, 1, Len(s) - 1)) * 10 + DigitVal(s[Len(s)])

RECURSIVE NatText(_)
NatText(n) ==
    IF n < 10 THEN <<Digits[n + 1]>>
    ELSE NatText(n \div 10) \o <<Digits[(n % 10) + 1]>>

RECURSIVE ZeroPad(_, _)
ZeroPad(s, width) == IF Len(s) < width THEN ZeroPad(<<"0">> \o s, width) ELSE s

RECURSIVE LStripChars(_, _)
LStripChars(s, chars) ==
    IF s # <<>> /\ Head(s) \in chars THEN LStripChars(Tail(s), chars) ELSE s

RECURSIVE RStripChars(_, _)
RStripChars(s, chars) ==
    IF s # <<>> /\ s[Len(s)] \in chars
    THEN RStripChars(SubSeq(s, 1, Len(s) - 1), chars)
    ELSE s

\* A character outside ASCII is written as its code point.
IdeographicSpace == "U+3000"

\* str.strip() / Series.str.strip(): whitespace is removed at both ends.
\* Whitespace is what str.strip() and the pattern \s take for it.
Whitespace == {" ", IdeographicSpace}

Strip(s) == RStripChars(LStripChars(s, Whitespace), Whitespace)

\* The shape of a text: every digit replaced by "d", other characters kept.
Shape(s) == [i \in 1..Len(s) |-> IF IsDigit(s[i]) THEN "d" ELSE s[i]]

(***************************************************************************)
(* Cells.                                                                  *)
(***************************************************************************)
NA == [kind |-> "na", text |-> <<>>, num |-> 0, tod |-> 0]

Str(s) == [kind |-> "str", text |-> s, num |-> 0, tod |-> 0]

IntV(n) == [kind |-> "int", text |-> <<>>, num |-> n, tod |-> 0]

\* a calendar date, num = year * 10000 + month * 100 + day
DateV(ymd) == [kind |-> "date", text |-> <<>>, num |-> ymd, tod |-> 0]

\* a UTC instant, num as for DateV, tod = hour * 10000 + minute * 100 + second
TsV(ymd, hms) == [kind |-> "ts", text |-> <<>>, num |-> ymd, tod |-> hms]

IsNA(cell) == cell.kind = "na"

\* DateText with day and month written first (a faulty variant)
DateTextDayFirst(ymd) ==
    ZeroPad(NatText(ymd % 100), 2) \o <<"-">>
        \o ZeroPad(NatText((ymd \div 100) % 100), 2) \o <<"-">>
        \o ZeroPad(NatText(ymd \div 10000), 4)

DateText(ymd) ==
    ZeroPad(NatText(ymd \div 10000), 4) \o <<"-">>
        \o ZeroPad(NatText((ymd \div 100) % 100), 2) \o <<"-">>
        \o ZeroPad(NatText(ymd % 100), 2)

TimeText(hms) ==
    ZeroPad(NatText(hms \div 10000), 2) \o <<":">>
        \o ZeroPad(NatText((hms \div 100) % 100), 2) \o <<":">>
        \o ZeroPad(NatText(hms % 100), 2)

UtcOffsetText == <<"+", "0", "0", ":", "0", "0">>

\* Series.astype("string"): missing stays missing, a string is kept, an
\* Int64 is written in decimal, a normalized datetime64 as YYYY-MM-DD and a
\* UTC-aware datetime as YYYY-MM-DD HH:MM:SS+00:00.
Stringify(cell) ==
    CASE cell.kind = "na" -> NA
      [] cell.kind = "str" -> cell
      [] cell.kind = "int" -> Str(NatText(cell.num))
      [] cell.kind = "date" -> Str(DateText(cell.num))
      [] cell.kind = "ts" ->
            Str(DateText(cell.num) \o <<" ">> \o TimeText(cell.tod) \o UtcOffsetText)

\* Series.astype(str): as Stringify, but a missing value becomes the text
\* "<NA>".
AsTypeStr(cell) ==
    IF IsNA(cell) THEN <<"<", "N", "A", ">">> ELSE Stringify(cell).text

(***************************************************************************)
(* DataFrames.                                                             *)
(***************************************************************************)
HasColumn(df, column) == \E k \in 1..Len(df.cols) : df.cols[k] = column

\* df[column] = values: an existing column is overwritten in place, a new
\* one is appended after the existing columns.
SetColumn(df, column, values) ==
    [cols |-> IF HasColumn(df, column) THEN df.cols ELSE Append(df.cols, column),
     rows |-> ToSeq([i \in 1..Len(df.rows) |->
                 [idx |-> df.rows[i].idx,
                  vals |-> (column :> values[i]) @@ df.rows[i].vals]])]

\* df[[columns]]: the listed columns, in the listed order.
SelectColumns(df, columns) ==
    [cols |-> columns,
     rows |-> ToSeq([i \in 1..Len(df.rows) |->
                 [idx |-> df.rows[i].idx,
                  vals |-> ToRow([c \in Range(columns) |-> df.rows[i].vals[c]])]])]

\* position of the row with index label idx (Series.loc[label])
Loc(df, idx) == CHOOSE k \in 1..Len(df.rows) : df.rows[k].idx = idx

(***************************************************************************)
(* Schemas (src/src/schema.py) and the type specification.                 *)
(***************************************************************************)
SCAN_REPORT_COLUMNS ==
    <<"scan_date", "point_card_id", "store_id", "employee_id", "shoe_sold",
      "shoe_exist_in_db", "shoes_marked_sold_rwa", "insole_sold",
      "shoe_functional", "size_recommendation", "safesize_code",
      "scanner_id", "created_at">>

\* r"^[0-9]+$": one or more digits
PatternDigits == [min |-> 1, bounded |-> FALSE, max |-> 1]

\* r"^[0-9]{7}$": exactly seven digits
PatternSevenDigits == [min |-> 7, bounded |-> TRUE, max |-> 7]

ScanReportSchema ==
    [columns |-> SCAN_REPORT_COLUMNS,
     not_null |-> <<"scan_date", "store_id", "employee_id", "safesize_code">>,
     validations |->
        <<[field |-> "store_id", type |-> "numeric", pattern |-> PatternDigits],
          [field |-> "employee_id", type |-> "numeric",
           pattern |-> PatternSevenDigits]>>]

\* A schema handed to validate_data_with_schema / process_file by a caller
\* (both take the schema as a parameter): it names the column "memo", which
\* COLUMN_TYPE_SPEC does not cover.
CallerSchema ==
    [columns |-> <<"store_id", "employee_id", "memo", "shoe_sold">>,
     not_null |-> <<"employee_id", "memo">>,
     validations |->
        <<[field |-> "employee_id", type |-> "numeric",
           pattern |-> PatternSevenDigits]>>]

SCHEMAS ==
    [name \in {"scan_report_daily", "scan_report_weekly"} |-> ScanReportSchema]

SchemaNames == (DOMAIN SCHEMAS) \cup {"caller_schema"}

SchemaOf(name) == IF name \in DOMAIN SCHEMAS THEN SCHEMAS[name] ELSE CallerSchema

COLUMN_TYPE_SPEC ==
    <<[column |-> "scan_date", type |-> "date", has_max |-> FALSE, max_length |-> 0],
      [column |-> "point_card_id", type |-> "string", has_max |-> TRUE, max_length |-> 16],
      [column |-> "store_id", type |-> "string", has_max |-> TRUE, max_length |-> 6],
      [column |-> "employee_id", type |-> "string", has_max |-> TRUE, max_length |-> 7],
      [column |-> "shoe_sold", type |-> "int", has_max |-> FALSE, max_length |-> 0],
      [column |-> "shoe_exist_in_db", type |-> "int", has_max |-> FALSE, max_length |-> 0],
      [column |-> "shoes_marked_sold_rwa", type |-> "int", has_max |-> FALSE, max_length |-> 0],
      [column |-> "insole_sold", type |-> "int", has_max |-> FALSE, max_length |-> 0],
      [column |-> "shoe_functional", type |-> "int", has_max |-> FALSE, max_length |-> 0],
      [column |-> "size_recommendation", type |-> "int", has_max |-> FALSE, max_length |-> 0],
      [column |-> "safesize_code", type |-> "string", has_max |-> TRUE, max_length |-> 50],
      [column |-> "scanner_id", type |-> "string", has_max |-> TRUE, max_length |-> 50],
      [column |-> "created_at", type |-> "timestamptz", has_max |-> FALSE, max_length |-> 0]>>

TypeSpecColumns == {COLUMN_TYPE_SPEC[k].column : k \in 1..Len(COLUMN_TYPE_SPEC)}

\* Series.str.match(pattern) for the two patterns of the schemas.  The
\* texts of the model hold no line break ("$" also matches before a final
\* one).
Matches(pattern, s) ==
    /\ AllDigits(s)
    /\ Len(s) >= pattern.min
    /\ pattern.bounded => Len(s) <= pattern.max

(***************************************************************************)
(* The diagnostic.  The text of the _error column is a sequence whose      *)
(* elements are the message texts and the two characters of the            *)
(* separator; a message text never ends in ";" or " ".                     *)
(***************************************************************************)
Separator == <<";", " ">>

SeparatorChars == {";", " "}

NotNullMessage(column) == <<"NOT NULL violation: " \o column>> \o Separator

\* PatternMessage without the wording for employee_id (a faulty variant)
PatternMessageNumeric(field) ==
    <<"Invalid " \o field \o " (must be numeric)">> \o Separator

PatternMessage(field) ==
    <<IF field = "employee_id"
      THEN "Invalid " \o field \o " (must be 7 digits)"
      ELSE "Invalid " \o field \o " (must be numeric)">> \o Separator

MaxLengthMessage(column, max_length) ==
    <<"Invalid " \o column \o " (max " \o ToString(max_length) \o " chars)">>
        \o Separator

IntegerMessage(column) == <<"Invalid " \o column \o " (must be integer)">> \o Separator

DateMessage(column) == <<"Invalid " \o column \o " (must be YYYY-MM-DD)">> \o Separator

TimestampMessage(column) ==
    <<"Invalid " \o column \o " (must be ISO 8601 timestamp)">> \o Separator

\* append_error writing the message before the current text (a faulty
\* variant)
append_error_prepend(df, mask, message) ==
    IF \E i \in 1..Len(df.rows) : mask[i]
    THEN SetColumn(df, "_error",
            [i \in 1..Len(df.rows) |->
                IF mask[i]
                THEN Str(message \o Stringify(df.rows[i].vals["_error"]).text)
                ELSE df.rows[i].vals["_error"]])
    ELSE df

\* append_error writing the message in place of the current text (a faulty
\* variant)
append_error_overwrite(df, mask, message) ==
    IF \E i \in 1..Len(df.rows) : mask[i]
    THEN SetColumn(df, "_error",
            [i \in 1..Len(df.rows) |->
                IF mask[i] THEN Str(message) ELSE df.rows[i].vals["_error"]])
    ELSE df

\* append_error(mask, message): the rows of the mask get message appended
\* to their _error text; nothing is written when the mask is empty.
append_error(df, mask, message) ==
    IF \E i \in 1..Len(df.rows) : mask[i]
    THEN SetColumn(df, "_error",
            [i \in 1..Len(df.rows) |->
                IF mask[i]
                THEN Str(Stringify(df.rows[i].vals["_error"]).text \o message)
                ELSE df.rows[i].vals["_error"]])
    ELSE df

\* series.astype("string").str.strip() of one cell
Trimmed(series) ==
    IF IsNA(series) THEN NA ELSE Str(Strip(Stringify(series).text))

\* series.isna() | trimmed.fillna("").eq("") of one cell
NullMask(series) == IsNA(series) \/ Trimmed(series).text = <<>>

\* if column not in df.columns: df[column] = pd.NA
WithColumn(df, column) ==
    IF HasColumn(df, column) THEN df
    ELSE SetColumn(df, column, [i \in 1..Len(df.rows) |-> NA])

\* one iteration of the NOT NULL loop, on a frame that has the column
NotNullColumn(df, column) ==
    append_error(df,
        [i \in 1..Len(df.rows) |-> NullMask(df.rows[i].vals[column])],
        NotNullMessage(column))

\* The NOT NULL loop: a column the frame lacks is added with missing values.
RECURSIVE CheckNotNull(_, _, _)
CheckNotNull(df, not_null, k) ==
    IF k > Len(not_null) THEN df
    ELSE CheckNotNull(NotNullColumn(WithColumn(df, not_null[k]), not_null[k]),
                      not_null, k + 1)

\* one iteration of the validations loop: the rows whose value is not
\* missing and does not match the pattern
ApplyValidation(df, validation) ==
    IF HasColumn(df, validation.field) /\ validation.type = "numeric"
    THEN append_error(df,
            [i \in 1..Len(df.rows) |->
                /\ ~Matches(validation.pattern,
                            AsTypeStr(df.rows[i].vals[validation.field]))
                /\ ~IsNA(df.rows[i].vals[validation.field])],
            PatternMessage(validation.field))
    ELSE df

\* The field-specific validations, in the order of schema["validations"].
RECURSIVE ApplyValidations(_, _, _)
ApplyValidations(df, validations, k) ==
    IF k > Len(validations) THEN df
    ELSE ApplyValidations(ApplyValidation(df, validations[k]), validations, k + 1)

(***************************************************************************)
(* Parsing (pd.to_numeric, pd.to_datetime).                                *)
(***************************************************************************)
\* pd.to_numeric of one text: digits with at most one decimal point.  The
\* result keeps the whole part and the digits of the fraction.
ParseNumeric(s) ==
    LET dots == {i \in 1..Len(s) : s[i] = "."}
        p == CHOOSE i \in dots : TRUE
        whole == IF dots = {} THEN s ELSE SubSeq(s, 1, p - 1)
        frac == IF dots = {} THEN <<>> ELSE SubSeq(s, p + 1, Len(s))
    IN  [ok |-> /\ Cardinality(dots) <= 1
                /\ AllDigits(whole) /\ AllDigits(frac)
                /\ Len(whole) + Len(frac) >= 1,
         whole |-> whole,
         frac |-> frac]

\* np.isclose(numeric % 1, 0): the fraction is within 1e-8 of zero, that is
\* its first eight digits are zeros.
FractionIsClose(frac) == \A i \in 1..Len(frac) : i <= 8 => frac[i] = "0"

IsLeapYear(y) == (y % 4 = 0 /\ y % 100 # 0) \/ y % 400 = 0

DaysInMonth(y, m) ==
    IF m = 2 THEN (IF IsLeapYear(y) THEN 29 ELSE 28)
    ELSE IF m \in {4, 6, 9, 11} THEN 30 ELSE 31

ValidDate(y, m, d) == m \in 1..12 /\ d >= 1 /\ d <= DaysInMonth(y, m)

ValidTime(h, mi, sec) == h <= 23 /\ mi <= 59 /\ sec <= 59

DateShape == <<"d", "d", "d", "d", "-", "d", "d", "-", "d", "d">>

TimeShape == <<"d", "d", ":", "d", "d", ":", "d", "d">>

\* the three ISO 8601 layouts of the model's timestamps:
\* YYYY-MM-DD, YYYY-MM-DDTHH:MM:SSZ and YYYY-MM-DD HH:MM:SS+00:00
TimestampShapes ==
    {DateShape,
     DateShape \o <<"T">> \o TimeShape \o <<"Z">>,
     DateShape \o <<" ">> \o TimeShape \o <<"+", "d", "d", ":", "d", "d">>}

YmdOf(s) ==
    DigitsVal(SubSeq(s, 1, 4)) * 10000 + DigitsVal(SubSeq(s, 6, 7)) * 100
        + DigitsVal(SubSeq(s, 9, 10))

HmsOf(s) ==
    DigitsVal(SubSeq(s, 12, 13)) * 10000 + DigitsVal(SubSeq(s, 15, 16)) * 100
        + DigitsVal(SubSeq(s, 18, 19))

DateFieldsValid(s) ==
    ValidDate(DigitsVal(SubSeq(s, 1, 4)), DigitsVal(SubSeq(s, 6, 7)),
              DigitsVal(SubSeq(s, 9, 10)))

TimeFieldsValid(s) ==
    ValidTime(DigitsVal(SubSeq(s, 12, 13)), DigitsVal(SubSeq(s, 15, 16)),
              DigitsVal(SubSeq(s, 18, 19)))

\* pd.to_datetime(text, format="%Y-%m-%d", errors="coerce") of one text
ParseDate(s) ==
    IF Shape(s) = DateShape /\ DateFieldsValid(s) THEN DateV(YmdOf(s)) ELSE NA

\* the format pandas guesses from one text; <<>> when it guesses none
NoFormat == <<>>

GuessFormat(s) == IF Shape(s) \in TimestampShapes THEN Shape(s) ELSE NoFormat

\* one text parsed against a guessed format (errors="coerce", utc=True);
\* the model's offsets are all +00:00
ParseWithFormat(format, s) ==
    IF format = NoFormat \/ Shape(s) # format \/ ~DateFieldsValid(s) THEN NA
    ELSE IF format = DateShape THEN TsV(YmdOf(s), 0)
    ELSE IF TimeFieldsValid(s)
            /\ (Len(s) > 20 => SubSeq(s, 20, Len(s)) = UtcOffsetText)
         THEN TsV(YmdOf(s), HmsOf(s))
         ELSE NA

FirstNonNull(cells) ==
    LET present == {i \in 1..Len(cells) : ~IsNA(cells[i])}
    IN  IF present = {} THEN 0
        ELSE CHOOSE i \in present : \A j \in present : i <= j

\* the format pandas takes from the first non-null element of the column
GuessedFormat(cleaned) ==
    IF FirstNonNull(cleaned) = 0 THEN NoFormat
    ELSE GuessFormat(cleaned[FirstNonNull(cleaned)].text)

\* every element parsed: against the column's format when pandas infers one
\* and could guess it, on its own otherwise
ParseAll(cleaned, infer_format, guessed) ==
    ToSeq([i \in 1..Len(cleaned) |->
        IF IsNA(cleaned[i]) THEN NA
        ELSE IF infer_format /\ guessed # NoFormat
             THEN ParseWithFormat(guessed, cleaned[i].text)
             ELSE ParseWithFormat(GuessFormat(cleaned[i].text), cleaned[i].text)])

\* pd.to_datetime(cleaned, errors="coerce", utc=True), no format given.
\* pandas 2 guesses the format from the first non-null element and parses
\* every element against it (an element of another layout becomes NaT);
\* when it can guess none, and in pandas 1 always, each element is parsed
\* on its own.  infer_format tells which of the two the installed pandas
\* does.
ToDatetimeUtc(cleaned, infer_format) ==
    ParseAll(cleaned, infer_format, GuessedFormat(cleaned))

(***************************************************************************)
(* Type coercion.                                                          *)
(***************************************************************************)
\* non_empty = trimmed.notna() & trimmed.ne(""), of one trimmed cell
NonEmpty(trimmed) == ~IsNA(trimmed) /\ trimmed.text # <<>>

\* Cleaned without the trim and without the test for an empty text (a
\* faulty variant)
CleanedUntrimmed(df, column) ==
    ToSeq([i \in 1..Len(df.rows) |-> Stringify(df.rows[i].vals[column])])

\* cleaned = trimmed.where(non_empty, pd.NA): the trimmed text of every row
\* of the column, a missing value where it is missing or empty
Cleaned(df, column) ==
    ToSeq([i \in 1..Len(df.rows) |->
        IF NonEmpty(Trimmed(df.rows[i].vals[column]))
        THEN Trimmed(df.rows[i].vals[column])
        ELSE NA])

\* case "string": too_long = non_empty & cleaned.str.len().gt(max_length)
ConvertString(df, column, spec, cleaned) ==
    [df |-> IF spec.has_max
            THEN append_error(df,
                    [i \in 1..Len(cleaned) |->
                        NonEmpty(cleaned[i]) /\ Len(cleaned[i].text) > spec.max_length],
                    MaxLengthMessage(column, spec.max_length))
            ELSE df,
     converted |-> cleaned]

\* numeric = pd.to_numeric(cleaned, errors="coerce"), of one cell
Numeric(cell) ==
    IF NonEmpty(cell) THEN ParseNumeric(cell.text)
    ELSE [ok |-> FALSE, whole |-> <<>>, frac |-> <<>>]

\* invalid_mask = invalid_numeric | fractional_mask, of one cell
IntInvalidMask(cell, numeric) ==
    \/ NonEmpty(cell) /\ ~numeric.ok
    \/ NonEmpty(cell) /\ numeric.ok /\ ~FractionIsClose(numeric.frac)

\* numeric.where(~invalid_mask).round().astype("Int64"), of one cell
IntCoerced(cell, numeric) ==
    IF numeric.ok /\ ~IntInvalidMask(cell, numeric)
    THEN IntV(DigitsVal(numeric.whole))
    ELSE NA

\* case "int"
ConvertInt(df, column, cleaned) ==
    [df |-> append_error(df,
                [i \in 1..Len(cleaned) |->
                    IntInvalidMask(cleaned[i], Numeric(cleaned[i]))],
                IntegerMessage(column)),
     converted |-> ToSeq([i \in 1..Len(cleaned) |->
                      IntCoerced(cleaned[i], Numeric(cleaned[i]))])]

\* invalid_mask = non_empty & parsed.isna(), and the fragment for its rows
ConvertParsed(df, cleaned, parsed, message) ==
    [df |-> append_error(df,
                [i \in 1..Len(cleaned) |-> NonEmpty(cleaned[i]) /\ IsNA(parsed[i])],
                message),
     converted |-> parsed]

\* case "date": pd.to_datetime(cleaned, errors="coerce", format="%Y-%m-%d")
ToDate(cleaned) ==
    ToSeq([i \in 1..Len(cleaned) |->
        IF NonEmpty(cleaned[i]) THEN ParseDate(cleaned[i].text) ELSE NA])

\* the match statement of _convert_column_for_output, on the cleaned column
ConvertCleaned(df, column, spec, infer_format, cleaned) ==
    CASE spec.type = "string" -> ConvertString(df, column, spec, cleaned)
      [] spec.type = "int" -> ConvertInt(df, column, cleaned)
      [] spec.type = "date" ->
            ConvertParsed(df, cleaned, ToDate(cleaned), DateMessage(column))
      [] spec.type = "timestamptz" ->
            ConvertParsed(df, cleaned, ToDatetimeUtc(cleaned, infer_format),
                          TimestampMessage(column))
      [] OTHER ->
            [df |-> df,
             converted |-> ToSeq([i \in 1..Len(df.rows) |-> df.rows[i].vals[column]])]

\* ConvertColumnForOutput leaving alone the diagnostic of a row that
\* already has one (a faulty variant)
ConvertColumnForOutputFirstFailure(df, column, spec, infer_format) ==
    [df |-> SetColumn(df, "_error",
                [i \in 1..Len(df.rows) |->
                    IF df.rows[i].vals["_error"].text # <<>>
                    THEN df.rows[i].vals["_error"]
                    ELSE ConvertCleaned(df, column, spec, infer_format,
                                        Cleaned(df, column)).df.rows[i].vals["_error"]]),
     converted |-> ConvertCleaned(df, column, spec, infer_format,
                                  Cleaned(df, column)).converted]

\* _convert_column_for_output: the frame with the column's fragments
\* appended, and the converted column.
ConvertColumnForOutput(df, column, spec, infer_format) ==
    ConvertCleaned(df, column, spec, infer_format, Cleaned(df, column))

\* conversions[column] = the converted column, after one iteration
Converted(done, conversions, column) ==
    [df |-> done.df, conversions |-> (column :> done.converted) @@ conversions]

\* _validate_and_prepare_output_types: every column of COLUMN_TYPE_SPEC that
\* the frame has, in the order of COLUMN_TYPE_SPEC.  typed is the frame and
\* the conversions made so far.
RECURSIVE ValidateAndPrepareOutputTypes(_, _, _)
ValidateAndPrepareOutputTypes(typed, k, infer_format) ==
    IF k > Len(COLUMN_TYPE_SPEC) THEN typed
    ELSE ValidateAndPrepareOutputTypes(
             IF ~HasColumn(typed.df, COLUMN_TYPE_SPEC[k].column) THEN typed
             ELSE Converted(
                      ConvertColumnForOutput(typed.df, COLUMN_TYPE_SPEC[k].column,
                                             COLUMN_TYPE_SPEC[k], infer_format),
                      typed.conversions, COLUMN_TYPE_SPEC[k].column),
             k + 1, infer_format)

NoConversions == <<>>

(***************************************************************************)
(* validate_data_with_schema.                                              *)
(***************************************************************************)
ErrorText(row) == row.vals["_error"].text

RECURSIVE MaskedRows(_, _, _)
MaskedRows(rows, mask, k) ==
    IF k > Len(rows) THEN <<>>
    ELSE (IF mask[k] THEN <<rows[k]>> ELSE <<>>) \o MaskedRows(rows, mask, k + 1)

\* FilterRows giving the rows of the mask last to first (a faulty variant)
FilterRowsReversed(df, mask) ==
    [cols |-> df.cols,
     rows |-> ToSeq([k \in 1..Len(MaskedRows(df.rows, mask, 1)) |->
                 MaskedRows(df.rows, mask, 1)[
                     Len(MaskedRows(df.rows, mask, 1)) + 1 - k]])]

\* df[mask]: the rows of the mask, in the order of the frame
FilterRows(df, mask) == [cols |-> df.cols, rows |-> MaskedRows(df.rows, mask, 1)]

\* CleanMask letting a row with a single fragment pass (a faulty variant)
CleanMaskSingleFragment(df) ==
    [i \in 1..Len(df.rows) |-> Len(ErrorText(df.rows[i])) <= 1]

\* df_filtered["_error"] == ""
CleanMask(df) == [i \in 1..Len(df.rows) |-> ErrorText(df.rows[i]) = <<>>]

\* InvalidMask without the filter (a faulty variant)
InvalidMaskUnfiltered(df) == [i \in 1..Len(df.rows) |-> TRUE]

\* df_filtered["_error"] != ""
InvalidMask(df) == [i \in 1..Len(df.rows) |-> ErrorText(df.rows[i]) # <<>>]

\* df.drop(columns=[...])
DropColumns(df, dropped) ==
    SelectColumns(df, SelectSeq(df.cols, LAMBDA c : c \notin dropped))

\* AddDiagnosticColumns counting the first data row as 1 (a faulty variant)
AddDiagnosticColumnsFromOne(df) ==
    SetColumn(SetColumn(df, "_error", [i \in 1..Len(df.rows) |-> Str(<<>>)]),
              "_row_number", [i \in 1..Len(df.rows) |-> IntV(i)])

\* df["_error"] = "" and df["_row_number"] = range(2, len(df) + 2)
AddDiagnosticColumns(df) ==
    SetColumn(SetColumn(df, "_error", [i \in 1..Len(df.rows) |-> Str(<<>>)]),
              "_row_number", [i \in 1..Len(df.rows) |-> IntV(i + 1)])

\* df["_error"].str.rstrip("; ")
TrimErrors(df) ==
    SetColumn(df, "_error",
        [i \in 1..Len(df.rows) |->
            Str(RStripChars(ErrorText(df.rows[i]), SeparatorChars))])

\* df[[*existing_columns, "_error", "_row_number"]]: the columns of the
\* schema that the frame has, and the two diagnostic columns
FilterColumns(df, schema) ==
    SelectColumns(df,
        SelectSeq(schema.columns, LAMBDA c : HasColumn(df, c))
            \o <<"_error", "_row_number">>)

\* clean_df[column] = converted.loc[clean_df.index], for every converted
\* column the clean frame has
ApplyConversions(clean_df, df, conversions) ==
    [cols |-> clean_df.cols,
     rows |-> ToSeq([i \in 1..Len(clean_df.rows) |->
                 [idx |-> clean_df.rows[i].idx,
                  vals |-> ToRow([c \in Range(clean_df.cols) |->
                              IF c \in DOMAIN conversions
                              THEN conversions[c][Loc(df, clean_df.rows[i].idx)]
                              ELSE clean_df.rows[i].vals[c]])]])]

\* if not clean_df.empty: the converted columns replace the raw ones and the
\* two diagnostic columns are dropped
CleanOutput(clean_df, df, conversions) ==
    IF clean_df.rows # <<>>
    THEN DropColumns(ApplyConversions(clean_df, df, conversions),
                     {"_error", "_row_number"})
    ELSE clean_df

\* SplitCleanInvalid writing the converted columns into the invalid rows
\* too (a faulty variant)
SplitCleanInvalidConverted(df, df_filtered, conversions) ==
    [frame |-> df,
     clean |-> CleanOutput(FilterRows(df_filtered, CleanMask(df_filtered)),
                           df, conversions),
     invalid |-> ApplyConversions(FilterRows(df_filtered, InvalidMask(df_filtered)),
                                  df, conversions)]

\* the split of the filtered frame into clean_df and invalid_df.  frame is
\* the caller's frame as the call leaves it (the function writes _error,
\* _row_number and the missing NOT NULL columns into it).
SplitCleanInvalid(df, df_filtered, conversions) ==
    [frame |-> df,
     clean |-> CleanOutput(FilterRows(df_filtered, CleanMask(df_filtered)),
                           df, conversions),
     invalid |-> FilterRows(df_filtered, InvalidMask(df_filtered))]

\* the part of validate_data_with_schema after the type conversions
FilterAndSplit(df, schema, conversions) ==
    SplitCleanInvalid(df, FilterColumns(df, schema), conversions)

\* the part of validate_data_with_schema before the trim: the two diagnostic
\* columns, the NOT NULL loop, the validations loop, the type conversions
Checked(df, schema, infer_format) ==
    ValidateAndPrepareOutputTypes(
        [df |-> ApplyValidations(
                    CheckNotNull(AddDiagnosticColumns(df), schema.not_null, 1),
                    schema.validations, 1),
         conversions |-> NoConversions],
        1, infer_format)

\* from the trim to the return, on the frame and the conversions in typed
Finished(typed, schema) ==
    FilterAndSplit(TrimErrors(typed.df), schema, typed.conversions)

\* The whole of validate_data_with_schema.
validate_data_with_schema(df, schema, infer_format) ==
    Finished(Checked(df, schema, infer_format), schema)

(***************************************************************************)
(* The module transfer.py at the root of the repository, which etl.py      *)
(* imports: its validate_data_with_schema has the NOT NULL loop and the    *)
(* validations loop, and no type coercion.                                 *)
(***************************************************************************)
\* ScanReportProcessor.SCHEMAS of the root module (one value for both names)
RootSchema ==
    [columns |->
        <<"scan_date", "point_card_id", "store_id", "employee_id", "shoe_sold",
          "shoe_exist_in_db", "shoes_marked_sold_rwa", "insole_sold",
          "shoe_functional", "size_recommendation", "safesize_code",
          "scanner_id">>,
     not_null |-> <<"scan_date", "store_id", "employee_id", "safesize_code">>,
     validations |->
        <<[field |-> "store_id", type |-> "numeric", pattern |-> PatternDigits],
          [field |-> "employee_id", type |-> "numeric",
           pattern |-> PatternSevenDigits]>>]

\* The NOT NULL loop of the root module: "if column in df.columns", a
\* column the frame lacks is not checked.
RECURSIVE RootCheckNotNull(_, _, _)
RootCheckNotNull(df, not_null, k) ==
    IF k > Len(not_null) THEN df
    ELSE RootCheckNotNull(
             IF HasColumn(df, not_null[k]) THEN NotNullColumn(df, not_null[k])
             ELSE df,
             not_null, k + 1)

\* validate_data_with_schema of the root module
RootValidateDataWithSchema(df, schema) ==
    FilterAndSplit(
        TrimErrors(ApplyValidations(
            RootCheckNotNull(AddDiagnosticColumns(df), schema.not_null, 1),
            schema.validations, 1)),
        schema, NoConversions)

\* check_schema.ensure_column_type_spec
ensure_column_type_spec(schema) ==
    \A k \in 1..Len(schema.columns) : schema.columns[k] \in TypeSpecColumns

(***************************************************************************)
(* Header normalization.                                                   *)
(***************************************************************************)
UpperLetters ==
    <<"A", "B", "C", "D", "E", "F", "G", "H", "I", "J", "K", "L", "M",
      "N", "O", "P", "Q", "R", "S", "T", "U", "V", "W", "X", "Y", "Z">>

LowerLetters ==
    <<"a", "b", "c", "d", "e", "f", "g", "h", "i", "j", "k", "l", "m",
      "n", "o", "p", "q", "r", "s", "t", "u", "v", "w", "x", "y", "z">>

\* str.lower() of one character
Lower(ch) ==
    IF \E k \in 1..Len(UpperLetters) : UpperLetters[k] = ch
    THEN LowerLetters[CHOOSE k \in 1..Len(UpperLetters) : UpperLetters[k] = ch]
    ELSE ch

\* [a-z0-9]
IsLowerAlnum(ch) ==
    IsDigit(ch) \/ \E k \in 1..Len(LowerLetters) : LowerLetters[k] = ch

\* re.sub(r"[^a-z0-9]+", "_", s): every run of other characters becomes "_"
RECURSIVE SubNonAlnumRuns(_)
SubNonAlnumRuns(s) ==
    IF s = <<>> THEN <<>>
    ELSE IF IsLowerAlnum(Head(s)) THEN <<Head(s)>> \o SubNonAlnumRuns(Tail(s))
    ELSE IF Len(s) > 1 /\ ~IsLowerAlnum(s[2]) THEN SubNonAlnumRuns(Tail(s))
    ELSE <<"_">> \o SubNonAlnumRuns(Tail(s))

\* re.sub(r"_+", "_", s)
RECURSIVE SubUnderscoreRuns(_)
SubUnderscoreRuns(s) ==
    IF s = <<>> THEN <<>>
    ELSE IF Head(s) = "_" /\ Len(s) > 1 /\ s[2] = "_" THEN SubUnderscoreRuns(Tail(s))
    ELSE <<Head(s)>> \o SubUnderscoreRuns(Tail(s))

StripChars(s, chars) == RStripChars(LStripChars(s, chars), chars)

\* str.lower()
LowerText(s) == ToSeq([i \in 1..Len(s) |-> Lower(s[i])])

\* _normalize_column_name without the final strip("_") (a faulty variant)
_normalize_column_name_unstripped(column_name) ==
    SubUnderscoreRuns(SubNonAlnumRuns(LowerText(Strip(column_name))))

_normalize_column_name(column_name) ==
    StripChars(SubUnderscoreRuns(SubNonAlnumRuns(LowerText(Strip(column_name)))),
               {"_"})

COLUMN_ALIASES ==
    <<[key |-> <<"s", "s", "p", "c">>,
       target |-> <<"p", "o", "i", "n", "t", "_", "c", "a", "r", "d", "_", "i", "d">>],
      [key |-> <<"s", "t", "o", "r", "e", "_", "i", "d">>,
       target |-> <<"s", "t", "o", "r", "e", "_", "i", "d">>],
      [key |-> <<"e", "m", "p", "l", "o", "y", "e", "e", "_", "i", "d">>,
       target |-> <<"e", "m", "p", "l", "o", "y", "e", "e", "_", "i", "d">>],
      [key |-> <<"s", "h", "o", "e", "_", "s", "o", "l", "d">>,
       target |-> <<"s", "h", "o", "e", "_", "s", "o", "l", "d">>],
      [key |-> <<"s", "h", "o", "e", "_", "e", "x", "i", "s", "t", "_", "i", "n", "_", "d", "a", "t", "a", "b", "a", "s", "e">>,
       target |-> <<"s", "h", "o", "e", "_", "e", "x", "i", "s", "t", "_", "i", "n", "_", "d", "b">>],
      [key |-> <<"s", "h", "o", "e", "s", "_", "m", "a", "r", "k", "e", "d", "_", "a", "s", "_", "s", "o", "l", "d", "_", "i", "n", "_", "r", "w", "a">>,
       target |-> <<"s", "h", "o", "e", "s", "_", "m", "a", "r", "k", "e", "d", "_", "s", "o", "l", "d", "_", "r", "w", "a">>],
      [key |-> <<"i", "n", "s", "o", "l", "e", "_", "s", "o", "l", "d">>,
       target |-> <<"i", "n", "s", "o", "l", "e", "_", "s", "o", "l", "d">>],
      [key |-> <<"s", "h", "o", "e", "_", "f", "u", "n", "c", "t", "i", "o", "n", "a", "l", "l", "y">>,
       target |-> <<"s", "h", "o", "e", "_", "f", "u", "n", "c", "t", "i", "o", "n", "a", "l">>],
      [key |-> <<"s", "h", "o", "e", "_", "f", "u", "n", "c", "t", "i", "o", "n", "a", "l", "l", "y", "_">>,
       target |-> <<"s", "h", "o", "e", "_", "f", "u", "n", "c", "t", "i", "o", "n", "a", "l">>],
      [key |-> <<"s", "h", "o", "e", "_", "f", "u", "n", "c", "t", "i", "o", "n", "a", "l">>,
       target |-> <<"s", "h", "o", "e", "_", "f", "u", "n", "c", "t", "i", "o", "n", "a", "l">>],
      [key |-> <<"s", "i", "z", "e", "_", "r", "e", "c", "o", "m", "m", "e", "n", "d", "a", "t", "i", "o", "n">>,
       target |-> <<"s", "i", "z", "e", "_", "r", "e", "c", "o", "m", "m", "e", "n", "d", "a", "t", "i", "o", "n">>],
      [key |-> <<"s", "a", "f", "e", "s", "i", "z", "e", "_", "c", "o", "d", "e">>,
       target |-> <<"s", "a", "f", "e", "s", "i", "z", "e", "_", "c", "o", "d", "e">>],
      [key |-> <<"s", "c", "a", "n", "n", "e", "r", "_", "i", "d">>,
       target |-> <<"s", "c", "a", "n", "n", "e", "r", "_", "i", "d">>],
      [key |-> <<"s", "c", "a", "n", "_", "d", "a", "t", "e">>,
       target |-> <<"s", "c", "a", "n", "_", "d", "a", "t", "e">>],
      [key |-> <<"u", "n", "n", "a", "m", "e", "d", "_", "1", "1">>,
       target |-> <<"s", "c", "a", "n", "_", "d", "a", "t", "e">>],
      [key |-> <<"u", "n", "n", "a", "m", "e", "d", "_", "1", "1", "_">>,
       target |-> <<"s", "c", "a", "n", "_", "d", "a", "t", "e">>]>>

\* COLUMN_ALIASES.get(normalized, normalized)
AliasTarget(normalized) ==
    IF \E k \in 1..Len(COLUMN_ALIASES) : COLUMN_ALIASES[k].key = normalized
    THEN COLUMN_ALIASES[
             CHOOSE k \in 1..Len(COLUMN_ALIASES) : COLUMN_ALIASES[k].key = normalized
         ].target
    ELSE normalized

\* The suffix loop over rename_map: seen counts the occurrences of each
\* target; a target seen before gets "_<count>" appended.
RECURSIVE SuffixLoop(_, _, _, _)
SuffixLoop(targets, k, seen, renamed) ==
    IF k > Len(targets) THEN renamed
    ELSE LET target == targets[k]
             count == IF target \in DOMAIN seen THEN seen[target] ELSE 0
             name == IF count # 0 THEN target \o <<"_">> \o NatText(count) ELSE target
         IN  SuffixLoop(targets, k + 1,
                        (target :> count + 1) @@ seen,
                        Append(renamed, name))

\* _normalize_dataframe_columns, on the column labels of the frame
_normalize_dataframe_columns(columns) ==
    SuffixLoop(
        ToSeq([k \in 1..Len(columns) |->
                  AliasTarget(_normalize_column_name(columns[k]))]),
        1, <<>>, <<>>)

(***************************************************************************)
(* The objects of the processor that outlive a call: the schemas of        *)
(* SCHEMAS (dicts that validate_data_with_schema is handed by reference),  *)
(* and the class attributes COLUMN_TYPE_SPEC and COLUMN_ALIASES.           *)
(***************************************************************************)
InitialProcessor ==
    [schemas |-> [name \in SchemaNames |-> SchemaOf(name)],
     type_spec |-> COLUMN_TYPE_SPEC,
     aliases |-> COLUMN_ALIASES]

\* a validation that adds the columns of the frame to schema["columns"] (a
\* faulty variant)
AfterValidationKeepingColumns(processor, name, df) ==
    [processor EXCEPT !.schemas[name].columns =
        processor.schemas[name].columns
            \o SelectSeq(df.cols,
                   LAMBDA c : c \notin Range(processor.schemas[name].columns))]

\* the objects after validate_data_with_schema(df, schema): the function
\* assigns to df only, never to schema or to an attribute of self
AfterValidation(processor, name, df) == processor

(***************************************************************************)
(* Domain cleaning: _clean_store_id_value, _normalize_scanner_id_value and *)
(* _apply_domain_cleaning.                                                 *)
(***************************************************************************)
\* unicodedata.normalize("NFKC", ...), first half: the compatibility
\* decomposition of a character.  The full-width forms U+FF10 (0), U+FF11
\* (1), U+FF08 and U+FF09 (parentheses) and the ideographic space become
\* ASCII; the voiced sound mark U+309B becomes a space and the combining
\* mark U+3099; the katakana GA (U+30AC) becomes KA (U+30AB) and U+3099;
\* ASCII is mapped to itself.
Decomposition(ch) ==
    CASE ch = "U+FF10" -> <<"0">>
      [] ch = "U+FF11" -> <<"1">>
      [] ch = "U+FF08" -> <<"(">>
      [] ch = "U+FF09" -> <<")">>
      [] ch = IdeographicSpace -> <<" ">>
      [] ch = "U+309B" -> <<" ", "U+3099">>
      [] ch = "U+30AC" -> <<"U+30AB", "U+3099">>
      [] OTHER -> <<ch>>

RECURSIVE Decomposed(_)
Decomposed(text) ==
    IF text = <<>> THEN <<>> ELSE Decomposition(Head(text)) \o Decomposed(Tail(text))

\* second half: the canonical composition, KA followed by U+3099 is GA
RECURSIVE Composed(_)
Composed(text) ==
    IF text = <<>> THEN <<>>
    ELSE IF Len(text) > 1 /\ text[1] = "U+30AB" /\ text[2] = "U+3099"
    THEN <<"U+30AC">> \o Composed(SubSeq(text, 3, Len(text)))
    ELSE <<Head(text)>> \o Composed(Tail(text))

NFKC(text) == Composed(Decomposed(text))

\* str.replace(ch, "") for each ch of chars / re.sub(r"\s+", "", text)
Remove(text, chars) == SelectSeq(text, LAMBDA ch : ch \notin chars)

\* text or pd.NA
TextOrNA(text) == IF text = <<>> THEN NA ELSE Str(text)

_clean_store_id_value(value) ==
    IF IsNA(value) \/ Strip(value.text) = <<>> THEN NA
    ELSE TextOrNA(LStripChars(Remove(Remove(NFKC(Strip(value.text)), {"(", ")"}),
                                     Whitespace),
                              {"0"}))

_normalize_scanner_id_value(value) ==
    IF IsNA(value) THEN NA ELSE TextOrNA(Strip(value.text))

\* cleaned[column] = cleaned[column].map(clean).astype("string"), when the
\* frame has the column
CleanStoreId(df) ==
    IF HasColumn(df, "store_id")
    THEN SetColumn(df, "store_id",
             [i \in 1..Len(df.rows) |->
                 Stringify(_clean_store_id_value(df.rows[i].vals["store_id"]))])
    ELSE df

CleanScannerId(df) ==
    IF HasColumn(df, "scanner_id")
    THEN SetColumn(df, "scanner_id",
             [i \in 1..Len(df.rows) |->
                 Stringify(_normalize_scanner_id_value(df.rows[i].vals["scanner_id"]))])
    ELSE df

\* _apply_domain_cleaning writing into the frame it was given (a faulty
\* variant)
_apply_domain_cleaning_in_place(df) ==
    [frame |-> CleanScannerId(CleanStoreId(df)),
     cleaned |-> CleanScannerId(CleanStoreId(df))]

\* _apply_domain_cleaning: frame is the frame of the caller after the call
\* (the cleaning works on df.copy()), cleaned is the frame returned
_apply_domain_cleaning(df) ==
    [frame |-> df, cleaned |-> CleanScannerId(CleanStoreId(df))]

(***************************************************************************)
(* Download: download_report, _download_report_once and _fetch_report of   *)
(* src/src/downloader.py (src/etl.py has the same three functions).  An    *)
(* exception is a record of its type and of the attempt and the transfer   *)
(* mode of the _fetch_report call that raised it, so that the exceptions   *)
(* of different calls are different objects.                               *)
(***************************************************************************)
\* modes = [(False, True), (False, False), (True, True)]
Modes ==
    <<[use_epsv |-> FALSE, passive |-> TRUE],
      [use_epsv |-> FALSE, passive |-> FALSE],
      [use_epsv |-> TRUE, passive |-> TRUE]>>

\* error_proto whose text contains "Extended Passive Mode"
EpsvError == "error_proto: Extended Passive Mode"

\* what a call of _fetch_report does: it returns, or raises error_proto
\* (with or without the text), FileNotFoundError (for a 550 reply) or
\* another error_perm
FetchOutcomes == {"ok", EpsvError, "error_proto", "FileNotFoundError", "error_perm"}

NoException == [type |-> "none", attempt |-> 0, mode |-> 0]

SleepOverflow == [type |-> "OverflowError", attempt |-> 0, mode |-> 0]

\* a float: infinite, or a number of seconds
Seconds(n) == [inf |-> FALSE, seconds |-> n]

Infinite == [inf |-> TRUE, seconds |-> 0]

\* the values of an environment variable: unset, a text that is not a
\* number, or a number
EnvInts == {[kind |-> "unset", num |-> 0], [kind |-> "text", num |-> 0]}
               \cup {[kind |-> "int", num |-> n] : n \in -1..MaxRetries}

EnvFloats ==
    {[kind |-> "unset", value |-> Seconds(0)], [kind |-> "text", value |-> Seconds(0)],
     [kind |-> "float", value |-> Seconds(0)], [kind |-> "float", value |-> Seconds(-1)],
     [kind |-> "float", value |-> Seconds(2)], [kind |-> "float", value |-> Infinite]}

\* retry_count = max(1, int(os.getenv("FTP_MAX_RETRIES", "3"))), and 3 on
\* ValueError
RetryCount(env) ==
    IF env.kind = "int" THEN (IF env.num > 1 THEN env.num ELSE 1) ELSE 3

\* retry_delay = float(os.getenv("FTP_RETRY_DELAY_SECONDS", "5")), and 5.0
\* on ValueError
RetryDelay(env) == IF env.kind = "float" THEN env.value ELSE Seconds(5)

\* wait_seconds = max(0.0, retry_delay)
WaitSeconds(delay) ==
    IF ~delay.inf /\ delay.seconds < 0 THEN Seconds(0) ELSE delay

\* the state of a call of download_report before its first attempt
DownloadStart(max_retries, retry_delay) ==
    [retry_count |-> RetryCount(max_retries),
     retry_delay |-> RetryDelay(retry_delay),
     attempt |-> 1,
     mode |-> 1,
     last_exc |-> NoException,
     last_proto_exc |-> NoException,
     fetches |-> <<>>,
     attempts |-> <<>>,
     result |-> NoException]

\* download_report once _download_report_once has returned
AttemptReturned(dl) ==
    [dl EXCEPT !.attempts = Append(@, [type |-> "ok", attempt |-> dl.attempt,
                                       mode |-> dl.mode]),
               !.result = [type |-> "ok", attempt |-> dl.attempt, mode |-> dl.mode]]

\* download_report once _download_report_once has raised exc:
\* FileNotFoundError is raised again; another exception is kept in
\* last_exc, and either the call sleeps (time.sleep raises OverflowError for
\* an infinite wait) and starts the next attempt, or it raises exc
AttemptRaised(dl, exc) ==
    IF exc.type = "FileNotFoundError"
    THEN [dl EXCEPT !.attempts = Append(@, exc), !.result = exc]
    ELSE IF dl.attempt < dl.retry_count
    THEN IF WaitSeconds(dl.retry_delay).inf
         THEN [dl EXCEPT !.attempts = Append(@, exc), !.last_exc = exc,
                         !.result = SleepOverflow]
         ELSE [dl EXCEPT !.attempts = Append(@, exc), !.last_exc = exc,
                         !.attempt = @ + 1, !.mode = 1,
                         !.last_proto_exc = NoException]
    ELSE [dl EXCEPT !.attempts = Append(@, exc), !.last_exc = exc, !.result = exc]

\* the mode loop going on after any error_proto (a faulty variant)
ModeLoopAnyProtocolError(dl, fetched) ==
    IF fetched.type = "ok" THEN AttemptReturned(dl)
    ELSE IF fetched.type \in {EpsvError, "error_proto"}
    THEN IF dl.mode < Len(Modes)
         THEN [dl EXCEPT !.last_proto_exc = fetched, !.mode = @ + 1]
         ELSE AttemptRaised([dl EXCEPT !.last_proto_exc = fetched], fetched)
    ELSE AttemptRaised(dl, fetched)

\* the loop of _download_report_once after a call of _fetch_report:
\* fetched is what the call returned or raised
ModeLoop(dl, fetched) ==
    IF fetched.type = "ok" THEN AttemptReturned(dl)
    ELSE IF fetched.type = EpsvError
    THEN IF dl.mode < Len(Modes)
         THEN [dl EXCEPT !.last_proto_exc = fetched, !.mode = @ + 1]
         ELSE AttemptRaised([dl EXCEPT !.last_proto_exc = fetched], fetched)
    ELSE AttemptRaised(dl, fetched)

\* one call of _fetch_report with the mode in turn, and what the two loops
\* do with its outcome
Fetched(dl, outcome) ==
    ModeLoop([dl EXCEPT !.fetches = Append(@, [type |-> outcome,
                                               attempt |-> dl.attempt,
                                               mode |-> dl.mode])],
             [type |-> outcome, attempt |-> dl.attempt, mode |-> dl.mode])

(***************************************************************************)
(* Files: process_input_file, process_file, process_all_files.  A file is  *)
(* its name (stem and suffix, the suffix in lower case) and its content;   *)
(* the content is the batch, the frame that _load_dataframe,               *)
(* _normalize_dataframe_columns and _apply_domain_cleaning hand on.        *)
(***************************************************************************)
NoFrame == [cols |-> <<>>, rows |-> <<>>]

NoSchema == "none"

NoError == "none"

\* ValueError(f"No schema defined for file: ...")
NoSchemaDefined == "No schema defined for file"

\* ValueError(f"Unsupported file extension for ...")
UnsupportedExtension == "Unsupported file extension"

\* the suffixes _load_dataframe reads; process_all_files globs the same
LoadableSuffixes == {".csv", ".xlsx", ".xls"}

Loadable(file) == file.suffix \in LoadableSuffixes

\* glob("*.csv") + glob("*.xlsx") + glob("*.xls") on the directory
Globbed(file) == file.suffix \in LoadableSuffixes

FileName(file) == file.stem \o file.suffix

\* SCHEMAS.get(Path(file_name).stem), as the name of the schema
get_schema_for_file(file) ==
    IF file.stem \in DOMAIN SCHEMAS THEN file.stem ELSE NoSchema

\* target_schema = schema or self.get_schema_for_file(csv_file.name)
TargetSchema(schema, file) ==
    IF schema # NoSchema THEN schema ELSE get_schema_for_file(file)

\* what a call hands back or leaves behind: the exception raised, the frame
\* validated, the two outputs, the files written, the files skipped
\* clean_output_path: Path | None = None
NoPath == "None"

\* a directory that does not exist
NoDirectory == [exists |-> FALSE, files |-> {}]

\* _setup_directories on the output directory: left alone when the outputs
\* are not persisted, otherwise removed with all it holds and made anew
_setup_directories(output_dir, persist_output) ==
    IF ~persist_output THEN output_dir ELSE [exists |-> TRUE, files |-> {}]

NoResult ==
    [error |-> NoError, frame |-> NoFrame, clean |-> NoFrame, invalid |-> NoFrame,
     written |-> {}, skipped_files |-> <<>>, clean_output_path |-> NoPath,
     invalid_output_path |-> NoPath]

Raised(error) == [NoResult EXCEPT !.error = error]

Returned(result) ==
    [NoResult EXCEPT !.frame = result.frame, !.clean = result.clean,
                     !.invalid = result.invalid]

\* FillScanDate writing the override into every row (a faulty variant)
FillScanDateEveryRow(df, scan_date) ==
    IF IsNA(scan_date) THEN df
    ELSE SetColumn(df, "scan_date", [i \in 1..Len(df.rows) |-> scan_date])

\* the scan_date override of process_input_file: scan_date is None (a
\* missing cell here) or a text
FillScanDate(df, scan_date) ==
    IF IsNA(scan_date) THEN df
    ELSE IF ~HasColumn(df, "scan_date")
    THEN SetColumn(df, "scan_date", [i \in 1..Len(df.rows) |-> scan_date])
    ELSE SetColumn(df, "scan_date",
            [i \in 1..Len(df.rows) |->
                IF NullMask(Stringify(df.rows[i].vals["scan_date"]))
                THEN scan_date
                ELSE Stringify(df.rows[i].vals["scan_date"])])

\* process_input_file: _load_dataframe raises for a suffix it does not
\* read, and the exception is raised again after the print; the content is
\* the frame after the domain cleaning (SpecCleaning has the cleaning itself)
process_input_file(file, content, schema, scan_date, infer_format) ==
    IF ~Loadable(file) THEN Raised(UnsupportedExtension)
    ELSE Returned(validate_data_with_schema(FillScanDate(content, scan_date),
                                            SchemaOf(schema), infer_format))

\* _order_columns: the columns of SCAN_REPORT_COLUMNS first, in that order
_order_columns(df) ==
    SelectColumns(df,
        SelectSeq(SCAN_REPORT_COLUMNS, LAMBDA c : HasColumn(df, c))
            \o SelectSeq(df.cols, LAMBDA c : c \notin Range(SCAN_REPORT_COLUMNS)))

\* if not clean_df.empty: clean_df = self._order_columns(clean_df)
Ordered(result) ==
    IF result.error = NoError /\ result.clean.rows # <<>>
    THEN [result EXCEPT !.clean = _order_columns(result.clean)]
    ELSE result

\* the outputs written whether or not the processor persists them (a
\* faulty variant)
PersistedAlways(file, result, persist_output) ==
    IF result.error = NoError
    THEN [result EXCEPT
             !.written =
                 (IF result.clean.rows # <<>> THEN {file.stem \o "_clean.csv"} ELSE {})
                     \cup (IF result.invalid.rows # <<>>
                           THEN {file.stem \o "_invalid.csv"} ELSE {}),
             !.clean_output_path =
                 IF result.clean.rows # <<>> THEN file.stem \o "_clean.csv" ELSE NoPath,
             !.invalid_output_path =
                 IF result.invalid.rows # <<>> THEN file.stem \o "_invalid.csv"
                 ELSE NoPath]
    ELSE result

\* if self.persist_output: <stem>_clean.csv and <stem>_invalid.csv, each
\* only when its frame has rows, and the path of each file written
Persisted(file, result, persist_output) ==
    IF result.error = NoError /\ persist_output
    THEN [result EXCEPT
             !.written =
                 (IF result.clean.rows # <<>> THEN {file.stem \o "_clean.csv"} ELSE {})
                     \cup (IF result.invalid.rows # <<>>
                           THEN {file.stem \o "_invalid.csv"} ELSE {}),
             !.clean_output_path =
                 IF result.clean.rows # <<>> THEN file.stem \o "_clean.csv" ELSE NoPath,
             !.invalid_output_path =
                 IF result.invalid.rows # <<>> THEN file.stem \o "_invalid.csv"
                 ELSE NoPath]
    ELSE result

\* process_file resolving a file without a schema to the daily schema (a
\* faulty variant)
process_file_default_schema(file, content, schema, scan_date, infer_format, persist_output) ==
    Persisted(file,
        Ordered(process_input_file(file, content,
                    IF TargetSchema(schema, file) = NoSchema
                    THEN "scan_report_daily" ELSE TargetSchema(schema, file),
                    scan_date, infer_format)),
        persist_output)

\* process_file(csv_file, schema, scan_date=scan_date)
process_file(file, content, schema, scan_date, infer_format, persist_output) ==
    IF TargetSchema(schema, file) = NoSchema THEN Raised(NoSchemaDefined)
    ELSE Persisted(file,
             Ordered(process_input_file(file, content, TargetSchema(schema, file),
                                        scan_date, infer_format)),
             persist_output)

\* process_all_files on a directory that holds the one file: a file the
\* globs do not match is not seen, a file without a schema is skipped and
\* named in the report "Skipped files (no schema defined)"
process_all_files(file, content, infer_format, persist_output) ==
    IF ~Globbed(file) THEN NoResult
    ELSE IF get_schema_for_file(file) = NoSchema
    THEN [NoResult EXCEPT !.skipped_files = <<FileName(file)>>]
    ELSE process_file(file, content, get_schema_for_file(file), NA, infer_format,
                      persist_output)

(***************************************************************************)
(* The pipeline: run_pipeline of src/etl.py.  For each report in turn the  *)
(* file is downloaded, handed to process_file of the root module and the   *)
(* clean frame uploaded.  The log holds the steps taken, each with the     *)
(* report and with what the step did: "ok" or the exception that ended the *)
(* run.                                                                    *)
(***************************************************************************)
\* build_report_specs: the daily report, then the weekly report
ReportSpecs == <<"scan_report_daily", "scan_report_weekly">>

\* a file on the FTP server: missing, a file pandas cannot read, or a table
MissingFile == [kind |-> "missing", frame |-> NoFrame]

UnreadableFile == [kind |-> "unreadable", frame |-> NoFrame]

Table(frame) == [kind |-> "table", frame |-> frame]

\* what download_report does for a file: FileNotFoundError for a missing
\* one; otherwise it returns, or raises the error of its last attempt
DownloadOutcomes(remote_file) ==
    IF remote_file.kind = "missing" THEN {"FileNotFoundError"} ELSE {"ok", "error_perm"}

\* what put_object does
UploadOutcomes == {"ok", "ClientError"}

PipelineStart ==
    [index |-> 1, step |-> "download", log |-> <<>>, clean |-> NoFrame,
     invalid |-> NoFrame, written |-> {}, uploads |-> <<>>]

Logged(run, step, outcome) ==
    [run EXCEPT !.log = Append(@, [report |-> ReportSpecs[run.index],
                                   step |-> step, outcome |-> outcome])]

\* a pipeline that goes on with the next report when a download fails (a
\* faulty variant)
DownloadDoneSkipping(run, outcome) ==
    IF outcome = "ok"
    THEN [Logged(run, "download", outcome) EXCEPT !.step = "process"]
    ELSE IF run.index < Len(ReportSpecs)
    THEN [Logged(run, "download", outcome) EXCEPT !.index = @ + 1]
    ELSE [Logged(run, "download", outcome) EXCEPT !.step = "failed"]

\* download_report(ftp_config, spec.remote_path, local_path):
\* FileNotFoundError becomes SystemExit, another exception leaves
\* run_pipeline as it is
DownloadDone(run, outcome) ==
    [Logged(run, "download", outcome) EXCEPT
        !.step = IF outcome = "ok" THEN "process" ELSE "failed"]

\* Path(spec.remote_path).stem: the dates of the report are in the name
LocalStem(report) ==
    IF report = "scan_report_daily" THEN "report_Xebio_<day>-<day>"
    ELSE "report_Xebio_<monday>-<sunday>"

\* the files process_file of the root module writes: as Persisted
RootWritten(report, result, save_output) ==
    IF save_output
    THEN (IF result.clean.rows # <<>> THEN {LocalStem(report) \o "_clean.csv"} ELSE {})
             \cup (IF result.invalid.rows # <<>>
                   THEN {LocalStem(report) \o "_invalid.csv"} ELSE {})
    ELSE {}

\* result = processor.process_file(local_path, schema=schema_override)
ProcessDone(run, local_file, save_output) ==
    IF local_file.kind = "unreadable"
    THEN [Logged(run, "process", "ValueError") EXCEPT !.step = "failed"]
    ELSE [Logged(run, "process", "ok") EXCEPT
             !.step = "upload",
             !.clean = RootValidateDataWithSchema(local_file.frame, RootSchema).clean,
             !.invalid = RootValidateDataWithSchema(local_file.frame, RootSchema).invalid,
             !.written = @ \cup RootWritten(ReportSpecs[run.index],
                              RootValidateDataWithSchema(local_file.frame, RootSchema),
                              save_output)]

\* ftp_wait_seconds = float(os.getenv("FTP_WAIT_SECONDS", "5")), and 5.0 on
\* ValueError
FtpWaitSeconds(env) == IF env.kind = "float" THEN env.value ELSE Seconds(5)

\* the end of the loop body: time.sleep(ftp_wait_seconds) before the next
\* report, when the wait is positive (time.sleep raises OverflowError for an
\* infinite wait)
NextReport(run, wait) ==
    IF run.index = Len(ReportSpecs) THEN [run EXCEPT !.step = "finished"]
    ELSE IF wait.inf
    THEN [Logged(run, "wait", "OverflowError") EXCEPT !.step = "failed"]
    ELSE [run EXCEPT !.index = @ + 1, !.step = "download"]

\* upload_clean_dataset(s3_client, s3_bucket, s3_prefix, spec.s3_key,
\* result.clean_df) and the rest of the loop body
UploadDone(run, outcome, wait) ==
    IF outcome = "ok"
    THEN NextReport(
             [Logged(run, "upload", outcome) EXCEPT
                 !.uploads = Append(@, [report |-> ReportSpecs[run.index],
                                        body |-> run.clean])],
             wait)
    ELSE [Logged(run, "upload", outcome) EXCEPT !.step = "failed"]

(***************************************************************************)
(* Historical aggregation: process_dataset of src/init_date_load.py.  The  *)
(* source files of a dataset are loaded, combined into one frame, the      *)
(* frame is validated as a whole, and the clean frame is written           *)
(* (dry run) or uploaded.                                                  *)
(***************************************************************************)
\* RuntimeError(f"No files found for dataset ...")
NoFilesFound == "No files found for dataset"

\* RuntimeError(f"[...] Invalid rows detected while enforcing schema types")
InvalidRowsDetected == "Invalid rows detected while enforcing schema types"

\* RuntimeError(f"Failed to upload consolidated dataset ...")
UploadFailed == "Failed to upload consolidated dataset"

\* the body of the loop of load_dataset_files: the frame is cleaned and the
\* date of the file fills the blank scan_date cells
LoadDatasetFile(obj) ==
    FillScanDate(_apply_domain_cleaning(obj.frame).cleaned, obj.report_date)

load_dataset_files(objects) ==
    ToSeq([k \in 1..Len(objects) |-> LoadDatasetFile(objects[k])])

\* align_columns: the columns of the first frame, then the new columns of
\* each later frame
RECURSIVE AlignedColumns(_, _, _)
AlignedColumns(frames, k, ordered) ==
    IF k > Len(frames) THEN ordered
    ELSE AlignedColumns(frames, k + 1,
             ordered \o SelectSeq(frames[k].cols, LAMBDA c : c \notin Range(ordered)))

\* frame.reindex(columns=ordered_columns): a column the frame lacks is
\* missing in every row
Reindex(frame, columns) ==
    [cols |-> columns,
     rows |-> ToSeq([i \in 1..Len(frame.rows) |->
                 [idx |-> frame.rows[i].idx,
                  vals |-> ToRow([c \in Range(columns) |->
                              IF HasColumn(frame, c) THEN frame.rows[i].vals[c]
                              ELSE NA])]])]

RECURSIVE AllRows(_, _)
AllRows(frames, k) ==
    IF k > Len(frames) THEN <<>> ELSE frames[k].rows \o AllRows(frames, k + 1)

\* ignore_index=True: the rows are numbered anew
Renumbered(rows) ==
    ToSeq([i \in 1..Len(rows) |-> [idx |-> i - 1, vals |-> rows[i].vals]])

\* pd.concat(normalized, ignore_index=True)
Concat(frames, columns) ==
    [cols |-> columns,
     rows |-> Renumbered(AllRows(
                  ToSeq([k \in 1..Len(frames) |-> Reindex(frames[k], columns)]), 1))]

concatenate_frames(frames) == Concat(frames, AlignedColumns(frames, 1, <<>>))

\* reorder_columns: the columns of SCAN_REPORT_COLUMNS first
reorder_columns(frame) ==
    SelectColumns(frame,
        SelectSeq(SCAN_REPORT_COLUMNS, LAMBDA c : HasColumn(frame, c))
            \o SelectSeq(frame.cols, LAMBDA c : c \notin Range(SCAN_REPORT_COLUMNS)))

\* enforce_schema_types handing on the clean rows when there are invalid
\* rows (a faulty variant)
EnforcedLenient(result) ==
    [error |-> NoError, frame |-> reorder_columns(result.clean)]

\* enforce_schema_types after the validation: RuntimeError when there is an
\* invalid row, the clean frame otherwise
Enforced(result) ==
    IF result.invalid.rows # <<>>
    THEN [error |-> InvalidRowsDetected, frame |-> NoFrame]
    ELSE [error |-> NoError, frame |-> reorder_columns(result.clean)]

\* enforce_schema_types(combined, dataset, processor); the validation works
\* on a copy of the frame
enforce_schema_types(frame, name, infer_format) ==
    Enforced(validate_data_with_schema(frame, SCHEMAS[name], infer_format))

\* dataset.filename_for(latest_date)
TargetFilename(name) == name \o "_<latest>.csv"

AggregationStart ==
    [combined |-> NoFrame, error |-> NoError, consolidated |-> NoFrame,
     written |-> {}, uploaded |-> <<>>]

(***************************************************************************)
(* Inputs.  A batch is what _load_dataframe and the domain cleaning hand   *)
(* on: text or missing cells, store_id already cleaned.  The batches of    *)
(* the model are a batch of well-formed rows changed in at most            *)
(* MaxDeviations places; a changed place is one cell, or the layout        *)
(* (a column left out, a column added).                                    *)
(***************************************************************************)
BaseColumns ==
    <<"scan_date", "store_id", "employee_id", "safesize_code", "shoe_sold",
      "created_at">>

ColumnLayouts ==
    {BaseColumns,
     SelectSeq(BaseColumns, LAMBDA c : c # "safesize_code"),
     BaseColumns \o <<"memo">>}

GoodValue(column) ==
    CASE column = "scan_date" -> Str(<<"2", "0", "2", "4", "-", "0", "1", "-", "0", "5">>)
      [] column = "store_id" -> Str(<<"1", "2">>)
      [] column = "employee_id" -> Str(<<"1", "2", "3", "4", "5", "6", "7">>)
      [] column = "safesize_code" -> Str(<<"S", "1">>)
      [] column = "shoe_sold" -> Str(<<"2">>)
      [] column = "created_at" -> Str(<<"2", "0", "2", "4", "-", "0", "1", "-", "0", "5", "T", "1", "0", ":", "0", "0", ":", "0", "0", "Z">>)
      [] column = "memo" -> Str(<<"o", "k">>)

OtherValues(column) ==
    CASE column = "scan_date" -> {NA,
            Str(<<" ">>),
            Str(<<"2", "0", "2", "4", "-", "1", "3", "-", "0", "1">>)}
      [] column = "store_id" -> {NA,
            Str(<<"1", "a">>),
            Str(<<"1", "2", "3", "4", "5", "6", "7">>)}
      [] column = "employee_id" -> {NA,
            Str(<<" ", " ">>),
            Str(<<"1", "2", "a", "4", "5", "6", "7">>),
            Str(<<"1", "2", "3", "4", "5", "6", "7", "8">>)}
      [] column = "safesize_code" -> {NA,
            Str(<<" ", "S", "1", " ">>)}
      [] column = "shoe_sold" -> {NA,
            Str(<<"2", ".", "0">>),
            Str(<<"2", ".", "5">>),
            Str(<<"2", ".", "0", "0", "0", "0", "0", "0", "0", "0", "1">>),
            Str(<<" ">>),
            Str(<<>>),
            Str(<<"x">>)}
      [] column = "created_at" -> {NA,
            Str(<<" ">>),
            Str(<<"2", "0", "2", "4", "-", "0", "1", "-", "0", "5">>),
            Str(<<"b", "a", "d">>)}
      [] column = "memo" -> {NA}

GoodBatch(columns, n) ==
    [cols |-> columns,
     rows |-> ToSeq([i \in 1..n |->
                 [idx |-> i - 1,
                  vals |-> ToRow([c \in Range(columns) |-> GoodValue(c)])]])]

SetCell(batch, i, column, value) ==
    [batch EXCEPT !.rows[i].vals[column] = value]

RECURSIVE Deviating(_, _)
Deviating(batch, budget) ==
    IF budget = 0 THEN {batch}
    ELSE LET fewer == Deviating(batch, budget - 1)
         IN  fewer \cup
             UNION {{SetCell(b, i, batch.cols[k], v) :
                        b \in fewer, i \in 1..Len(batch.rows),
                        v \in OtherValues(batch.cols[k])} :
                       k \in 1..Len(batch.cols)}

\* what a run costs that departs from the daily schema, the base layout and
\* a pandas that infers one datetime format
Cost(name, infer, layout) ==
    (IF name = "scan_report_daily" THEN 0 ELSE 1) + (IF infer THEN 0 ELSE 1)
        + (IF layout = BaseColumns THEN 0 ELSE 1)

DeviationCount(b) ==
    Cardinality({<<i, k>> \in (1..Len(b.rows)) \X (1..Len(b.cols)) :
                    b.rows[i].vals[b.cols[k]] # GoodValue(b.cols[k])})

Batches(name, infer) ==
    UNION {Deviating(GoodBatch(layout, n), MaxDeviations - Cost(name, infer, layout)) :
              layout \in {l \in ColumnLayouts : Cost(name, infer, l) <= MaxDeviations},
              n \in 0..MaxRows}

\* The files of the model: a name SCHEMAS has and one it lacks; two
\* suffixes _load_dataframe reads and one it does not.
Files == [stem : {"scan_report_daily", "notes"}, suffix : {".csv", ".xlsx", ".txt"}]

DefaultFile == [stem |-> "scan_report_daily", suffix |-> ".csv"]

\* the scan_date argument: None, a date, a blank text
ScanDates ==
    {NA, Str(<<"2", "0", "2", "4", "-", "0", "2", "-", "0", "1">>), Str(<<" ">>)}

\* the schema argument of process_file: None, or a schema
SchemaArguments == {NoSchema, "scan_report_daily", "caller_schema"}

FileLayouts ==
    {BaseColumns, SelectSeq(BaseColumns, LAMBDA c : c # "scan_date")}

\* what a call costs that departs from the default file, no scan_date, a
\* processor that writes its outputs, and the base layout
FileCost(f, schema, date, persist, layout) ==
    (IF f = DefaultFile THEN 0 ELSE 1) + (IF schema = "caller_schema" THEN 1 ELSE 0)
        + (IF IsNA(date) THEN 0 ELSE 1) + (IF persist THEN 0 ELSE 1)
        + (IF layout = BaseColumns THEN 0 ELSE 1)

FileBatches(f, schema, date, persist) ==
    UNION {Deviating(GoodBatch(layout, n),
                     MaxDeviations - FileCost(f, schema, date, persist, layout)) :
              layout \in {l \in FileLayouts :
                             FileCost(f, schema, date, persist, l) <= MaxDeviations},
              n \in 0..MaxRows}

\* Frames as _load_dataframe hands them to the domain cleaning: the
\* identifiers as typed, with blanks, parentheses, leading zeros and
\* full-width characters; memo stands for the columns the cleaning does not
\* name.
RawLayouts ==
    {<<"store_id", "scanner_id", "memo">>, <<"store_id", "memo">>,
     <<"scanner_id", "memo">>, <<"memo">>}

RawGoodValue(column) ==
    CASE column = "store_id" -> Str(<<"1", "2">>)
      [] column = "scanner_id" -> Str(<<"S", "1">>)
      [] column = "memo" -> Str(<<"o", "k">>)

RawValues(column) ==
    CASE column = "store_id" -> {NA,
            Str(<<>>),
            Str(<<" ">>),
            Str(<<"0", "0", "0">>),
            Str(<<"0", "0", "1", "2">>),
            Str(<<" ", "(", "1", "2", ")", " ">>),
            Str(<<"1", " ", "2">>),
            Str(<<"(", "0", ")", "1">>),
            Str(<<"1", "(", "0", ")">>),
            Str(<<"(", " ", ")">>),
            Str(<<"U+FF10", "U+FF11", "2">>),
            Str(<<"U+FF08", "1", "U+FF09", "0">>),
            Str(<<IdeographicSpace, "0", IdeographicSpace, "7">>),
            Str(<<"A", "0", "1">>),
            Str(<<"U+30AC", "1">>),
            Str(<<"U+30AB", "U+309B", "1">>)}
      [] column = "scanner_id" -> {NA,
            Str(<<>>),
            Str(<<" ", " ">>),
            Str(<<" ", "S", "1", " ">>),
            Str(<<"S", " ", "0", "1">>),
            Str(<<"(", "0", "1", ")">>)}
      [] column = "memo" -> {NA,
            Str(<<" ">>),
            Str(<<" ", "(", "0", "1", ")", " ">>)}

RawGoodBatch(columns, n) ==
    [cols |-> columns,
     rows |-> ToSeq([i \in 1..n |->
                 [idx |-> i - 1,
                  vals |-> ToRow([c \in Range(columns) |-> RawGoodValue(c)])]])]

RECURSIVE RawDeviating(_, _)
RawDeviating(batch, budget) ==
    IF budget = 0 THEN {batch}
    ELSE LET fewer == RawDeviating(batch, budget - 1)
         IN  fewer \cup
             UNION {{SetCell(b, i, batch.cols[k], v) :
                        b \in fewer, i \in 1..Len(batch.rows),
                        v \in RawValues(batch.cols[k])} :
                       k \in 1..Len(batch.cols)}

RawBatches ==
    UNION {RawDeviating(RawGoodBatch(layout, n), MaxDeviations) :
              layout \in RawLayouts, n \in 0..MaxRows}

\* The batches a processor validated before the batch of the run.
EarlierBatches ==
    {GoodBatch(BaseColumns, 1),
     GoodBatch(BaseColumns \o <<"memo">>, 1),
     SetCell(GoodBatch(BaseColumns, 2), 2, "employee_id", NA),
     GoodBatch(BaseColumns, 0)}

RECURSIVE EarlierRuns(_)
EarlierRuns(n) ==
    IF n = 0 THEN {<<>>}
    ELSE EarlierRuns(n - 1)
             \cup {Append(run, b) : run \in EarlierRuns(n - 1), b \in EarlierBatches}

\* the batches of a run that follows the earlier ones: each earlier batch
\* counts as one departure
LaterBatches(name, infer, run) ==
    UNION {Deviating(GoodBatch(layout, n),
                     MaxDeviations - Cost(name, infer, layout) - Len(run)) :
              layout \in {l \in ColumnLayouts :
                             Cost(name, infer, l) + Len(run) <= MaxDeviations},
              n \in 0..MaxRows}

\* The files of the FTP server, for the pipeline.
RemoteFiles ==
    {MissingFile, UnreadableFile,
     Table(GoodBatch(BaseColumns, 2)),
     Table(SetCell(GoodBatch(BaseColumns, 2), 1, "employee_id", NA)),
     Table(SetCell(GoodBatch(BaseColumns, 1), 1, "store_id", Str(<<"1", "a">>))),
     Table(GoodBatch(BaseColumns, 0))}

\* The source files of a dataset: none, one file, or two files of which the
\* second is one of a few; a file is its report date and its content.
ReportDates ==
    <<Str(<<"2", "0", "2", "4", "-", "0", "2", "-", "0", "1">>),
      Str(<<"2", "0", "2", "4", "-", "0", "2", "-", "0", "2">>)>>

SourceRuns ==
    {<<>>}
        \cup {<<[report_date |-> ReportDates[1], frame |-> b]>> :
                 b \in UNION {Deviating(GoodBatch(layout, n), MaxDeviations - 1) :
                                 layout \in ColumnLayouts, n \in 0..MaxRows}}
        \cup {<<[report_date |-> ReportDates[1], frame |-> b],
                [report_date |-> ReportDates[2], frame |-> e]>> :
                 b \in UNION {Deviating(GoodBatch(BaseColumns, n), MaxDeviations - 1) :
                                 n \in 0..1},
                 e \in EarlierBatches}

\* Raw header texts as they come from a file.
HeaderPool ==
    {<<"s", "c", "a", "n", "n", "e", "r", "_", "i", "d">>,
     <<"S", "c", "a", "n", "n", "e", "r", " ", "I", "D">>,
     <<"s", "c", "a", "n", "n", "e", "r", "_", "i", "d", "_", "1">>,
     <<"s", "t", "o", "r", "e", "_", "i", "d">>,
     <<" ", " ", "S", "T", "O", "R", "E", "-", "I", "D", " ", " ">>,
     <<"S", "t", "o", "r", "e", " ", "I", "D">>,
     <<"(", "M", "e", "m", "o", "?", ")">>,
     <<"S", "S", "P", "C">>,
     <<"U", "n", "n", "a", "m", "e", "d", ":", " ", "1", "1">>,
     <<"m", "e", "m", "o">>}

RECURSIVE HeaderLists(_)
HeaderLists(n) ==
    IF n = 0 THEN {<<>>}
    ELSE LET shorter == HeaderLists(n - 1)
         IN  shorter \cup
             {Append(h, x) : h \in shorter,
                             x \in HeaderPool}

Distinct(seq) == \A i, j \in 1..Len(seq) : i # j => seq[i] # seq[j]

NoAltered == [row |-> 0, clean |-> NoFrame, invalid |-> NoFrame]

(***************************************************************************)
(* State.                                                                  *)
(***************************************************************************)
VARIABLES
    pc,            \* position of the run
    raw_headers,   \* column labels of the loaded file
    headers,       \* column labels after _normalize_dataframe_columns
    schema_name,   \* the schema of the run
    infer_format,  \* whether the installed pandas infers one datetime format
    batch,         \* the batch as loaded (never written)
    df,            \* the frame handed to the call
    clean,         \* clean_df of the call
    invalid,       \* invalid_df of the call
    clean2,        \* clean_df of validating clean again
    invalid2,      \* invalid_df of validating clean again
    altered,       \* a run on the batch with one row changed
    file,          \* the input file (its content is the batch)
    scan_date,     \* the scan_date argument
    persist_output,\* the processor's persist_output
    error,         \* the exception a call raised
    written,       \* the files written to output_dir
    skipped_files, \* skipped_files of process_all_files
    cleaned,       \* the frame _apply_domain_cleaning returned
    recleaned,     \* the frame it returned for the cleaned frame
    processor,     \* the schemas, COLUMN_TYPE_SPEC and COLUMN_ALIASES
    earlier,       \* the batches to be validated before the batch
    done,          \* how many of them have been validated
    ftp_max_retries,   \* the environment variable FTP_MAX_RETRIES
    ftp_retry_delay,   \* the environment variable FTP_RETRY_DELAY_SECONDS
    dl,            \* the call of download_report: its locals, the calls of
                   \* _fetch_report and the attempts made, its result
    remote,        \* the file of each report on the FTP server
    ftp_wait,      \* the environment variable FTP_WAIT_SECONDS
    run,           \* the call of run_pipeline: the report and the step in
                   \* turn, the log, the result of process_file, the uploads
    sources,       \* the source files of the dataset
    dry_run,       \* the dry_run argument of process_dataset
    agg,           \* the call of process_dataset: the combined frame, the
                   \* exception raised, the consolidated frame, the file
                   \* written, the object uploaded
    output_dir,    \* the output directory: whether it exists, the files in it
    returned       \* clean_output_path and invalid_output_path of the
                   \* ProcessingResult

fileVars ==
    <<file, scan_date, persist_output, error, written, skipped_files, output_dir,
      returned>>

cleaningVars == <<cleaned, recleaned>>

\* the variables of the other parts of the system, which validation and
\* the calls on a file leave alone
sequenceVars == <<processor, earlier, done>>

downloadVars == <<ftp_max_retries, ftp_retry_delay, dl>>

pipelineVars == <<remote, ftp_wait, run>>

aggregateVars == <<sources, dry_run, agg>>

otherVars ==
    <<cleaningVars, sequenceVars, downloadVars, pipelineVars, aggregateVars>>

vars ==
    <<pc, raw_headers, headers, schema_name, infer_format, batch, df, clean,
      invalid, clean2, invalid2, altered, file, scan_date, persist_output,
      error, written, skipped_files, cleaned, recleaned, processor, earlier,
      done, ftp_max_retries, ftp_retry_delay, dl, remote, ftp_wait, run, sources,
      dry_run, agg, output_dir, returned>>

InitResults ==
    /\ headers = <<>>
    /\ clean = NoFrame /\ invalid = NoFrame
    /\ clean2 = NoFrame /\ invalid2 = NoFrame
    /\ altered = NoAltered
    /\ error = NoError
    /\ written = {}
    /\ skipped_files = <<>>
    /\ returned = [clean_output_path |-> NoPath, invalid_output_path |-> NoPath]
    /\ cleaned = NoFrame /\ recleaned = NoFrame
    /\ processor = InitialProcessor
    /\ done = 0

\* no download
InitNoDownload ==
    /\ ftp_max_retries = [kind |-> "unset", num |-> 0]
    /\ ftp_retry_delay = [kind |-> "unset", value |-> Seconds(0)]
    /\ dl = DownloadStart(ftp_max_retries, ftp_retry_delay)

\* no pipeline
InitNoPipeline ==
    /\ remote = [r \in Range(ReportSpecs) |-> MissingFile]
    /\ ftp_wait = [kind |-> "unset", value |-> Seconds(0)]
    /\ run = PipelineStart

\* no aggregation
InitNoAggregation ==
    /\ sources = <<>>
    /\ dry_run = TRUE
    /\ agg = AggregationStart

InitOutputs ==
    /\ InitResults
    /\ InitNoAggregation
    /\ InitNoDownload
    /\ InitNoPipeline
    /\ earlier = <<>>

\* a frame handed over directly, not read from a file
InitNoFile ==
    /\ file = DefaultFile
    /\ scan_date = NA
    /\ persist_output = TRUE
    /\ output_dir = _setup_directories(NoDirectory, persist_output)

\* a file whose column labels are to be normalized
InitHeaders ==
    /\ InitOutputs
    /\ InitNoFile
    /\ pc = "headers"
    /\ raw_headers \in {h \in HeaderLists(MaxHeaders) : Distinct(h)}
    /\ schema_name = "scan_report_daily"
    /\ infer_format = TRUE
    /\ batch = NoFrame
    /\ df = NoFrame

\* a batch that is about to be validated
InitBatch ==
    /\ InitOutputs
    /\ InitNoFile
    /\ pc = "loaded"
    /\ raw_headers = <<>>
    /\ schema_name \in SchemaNames
    /\ infer_format \in BOOLEAN
    /\ batch \in Batches(schema_name, infer_format)
    /\ df = batch

Init == InitHeaders \/ InitBatch

\* a file in the sample directory that is about to be processed
InitFile ==
    /\ InitOutputs
    /\ pc = "file"
    /\ raw_headers = <<>>
    /\ infer_format = TRUE
    /\ file \in Files
    /\ schema_name \in SchemaArguments
    /\ scan_date \in ScanDates
    /\ persist_output \in BOOLEAN
    /\ output_dir = _setup_directories(NoDirectory, persist_output)
    /\ batch \in FileBatches(file, schema_name, scan_date, persist_output)
    /\ df = NoFrame

\* _normalize_dataframe_columns on the loaded labels
NormalizeColumns ==
    /\ pc = "headers"
    /\ headers' = _normalize_dataframe_columns(raw_headers)
    /\ pc' = "normalized"
    /\ UNCHANGED <<raw_headers, schema_name, infer_format, batch, df, clean,
                   invalid, clean2, invalid2, altered>>
    /\ UNCHANGED <<fileVars, otherVars>>

\* validate_data_with_schema(df, schema)
Validate ==
    /\ pc = "loaded"
    /\ LET result == validate_data_with_schema(df, SchemaOf(schema_name), infer_format)
       IN  /\ df' = result.frame
           /\ clean' = result.clean
           /\ invalid' = result.invalid
    /\ pc' = "validated"
    /\ UNCHANGED <<raw_headers, headers, schema_name, infer_format, batch,
                   clean2, invalid2, altered>>
    /\ UNCHANGED <<fileVars, otherVars>>

\* check_schema.main: the schema is checked against COLUMN_TYPE_SPEC first,
\* and the file is validated only when the check passes.
CheckSchemaMain ==
    /\ pc = "loaded"
    /\ IF ensure_column_type_spec(SchemaOf(schema_name))
       THEN LET result == validate_data_with_schema(df, SchemaOf(schema_name),
                                                    infer_format)
            IN  /\ df' = result.frame
                /\ clean' = result.clean
                /\ invalid' = result.invalid
                /\ pc' = "validated"
       ELSE /\ pc' = "refused"
            /\ UNCHANGED <<df, clean, invalid>>
    /\ UNCHANGED <<raw_headers, headers, schema_name, infer_format, batch,
                   clean2, invalid2, altered>>
    /\ UNCHANGED <<fileVars, otherVars>>

\* validate_data_with_schema(clean_df, schema): a second call, on the clean
\* frame of the first
Revalidate ==
    /\ pc = "validated"
    /\ LET result == validate_data_with_schema(clean, SchemaOf(schema_name),
                                               infer_format)
       IN  /\ clean2' = result.clean
           /\ invalid2' = result.invalid
    /\ pc' = "revalidated"
    /\ UNCHANGED <<raw_headers, headers, schema_name, infer_format, batch, df,
                   clean, invalid, altered>>
    /\ UNCHANGED <<fileVars, otherVars>>

\* validate_data_with_schema on a second batch, which differs from the first
\* in the values of one row only
ValidateAltered ==
    /\ pc = "validated"
    /\ \E i \in 1..Len(batch.rows), k \in 1..Len(batch.cols) :
          \E v \in OtherValues(batch.cols[k]) :
             LET other == SetCell(batch, i, batch.cols[k], v)
                 result == validate_data_with_schema(other, SchemaOf(schema_name),
                                                     infer_format)
             IN  /\ other # batch
                 /\ DeviationCount(other)
                        + Cost(schema_name, infer_format, batch.cols) <= MaxDeviations
                 /\ altered' = [row |-> i, clean |-> result.clean,
                                invalid |-> result.invalid]
    /\ pc' = "compared"
    /\ UNCHANGED <<raw_headers, headers, schema_name, infer_format, batch, df,
                   clean, invalid, clean2, invalid2>>
    /\ UNCHANGED <<fileVars, otherVars>>

\* validate_data_with_schema of the root module, as etl.run_pipeline
\* reaches it through process_file
ValidateRoot ==
    /\ pc = "loaded"
    /\ schema_name \in DOMAIN SCHEMAS
    /\ LET result == RootValidateDataWithSchema(df, RootSchema)
       IN  /\ df' = result.frame
           /\ clean' = result.clean
           /\ invalid' = result.invalid
    /\ pc' = "validated_root"
    /\ UNCHANGED <<raw_headers, headers, schema_name, infer_format, batch,
                   clean2, invalid2, altered>>
    /\ UNCHANGED <<fileVars, otherVars>>

\* what every call on a file leaves unchanged
FileFrame ==
    UNCHANGED <<raw_headers, headers, schema_name, infer_format, batch, clean2,
                invalid2, altered, file, scan_date, persist_output, otherVars>>

\* the state a call on a file leaves behind
Leaves(result) ==
    /\ error' = result.error
    /\ df' = result.frame
    /\ clean' = result.clean
    /\ invalid' = result.invalid
    /\ written' = result.written
    /\ skipped_files' = result.skipped_files
    /\ output_dir' = [output_dir EXCEPT !.files = @ \cup result.written]
    /\ returned' = [clean_output_path |-> result.clean_output_path,
                    invalid_output_path |-> result.invalid_output_path]

\* process_input_file(csv_file, schema, scan_date=scan_date)
ProcessInputFile ==
    /\ pc = "file"
    /\ schema_name # NoSchema
    /\ Leaves(process_input_file(file, batch, schema_name, scan_date, infer_format))
    /\ pc' = "input_processed"
    /\ FileFrame

\* process_file(csv_file, schema, scan_date=scan_date)
ProcessFile ==
    /\ pc = "file"
    /\ Leaves(process_file(file, batch, schema_name, scan_date, infer_format,
                           persist_output))
    /\ pc' = "file_processed"
    /\ FileFrame

\* process_all_files(), on a sample directory that holds the file
ProcessAllFiles ==
    /\ pc = "file"
    /\ schema_name = NoSchema
    /\ IsNA(scan_date)
    /\ Leaves(process_all_files(file, batch, infer_format, persist_output))
    /\ pc' = "all_processed"
    /\ FileFrame

\* a processor that is about to be made and handed a file; the output
\* directory is missing, empty, or holds the outputs of an earlier run
OutputDirectories ==
    {NoDirectory, [exists |-> TRUE, files |-> {}],
     [exists |-> TRUE, files |-> {"scan_report_daily_clean.csv", "old_invalid.csv"}]}

InitConstruct ==
    /\ InitOutputs
    /\ pc = "construct"
    /\ raw_headers = <<>>
    /\ infer_format = TRUE
    /\ file \in Files
    /\ schema_name \in SchemaArguments
    /\ scan_date \in ScanDates
    /\ persist_output \in BOOLEAN
    /\ batch \in FileBatches(file, schema_name, scan_date, persist_output)
    /\ df = NoFrame
    /\ output_dir \in OutputDirectories

\* ScanReportProcessor(sample_dir, output_dir, persist_output)
Construct ==
    /\ pc = "construct"
    /\ output_dir' = _setup_directories(output_dir, persist_output)
    /\ pc' = "file"
    /\ UNCHANGED <<raw_headers, headers, schema_name, infer_format, batch, df, clean,
                   invalid, clean2, invalid2, altered, file, scan_date,
                   persist_output, error, written, skipped_files, returned,
                   otherVars>>

\* a frame as loaded, about to be cleaned
InitRaw ==
    /\ InitOutputs
    /\ InitNoFile
    /\ pc = "raw"
    /\ raw_headers = <<>>
    /\ schema_name = "scan_report_daily"
    /\ infer_format = TRUE
    /\ batch \in RawBatches
    /\ df = batch

\* what the domain cleaning leaves unchanged
CleaningFrame ==
    /\ UNCHANGED <<raw_headers, headers, schema_name, infer_format, batch, clean,
                   invalid, clean2, invalid2, altered>>
    /\ UNCHANGED <<fileVars, sequenceVars, downloadVars, pipelineVars, aggregateVars>>

\* df = self._apply_domain_cleaning(df)
ApplyDomainCleaning ==
    /\ pc = "raw"
    /\ df' = _apply_domain_cleaning(df).frame
    /\ cleaned' = _apply_domain_cleaning(df).cleaned
    /\ pc' = "cleaned"
    /\ UNCHANGED recleaned
    /\ CleaningFrame

\* _apply_domain_cleaning on a frame that was cleaned before
CleanAgain ==
    /\ pc = "cleaned"
    /\ recleaned' = _apply_domain_cleaning(cleaned).cleaned
    /\ pc' = "recleaned"
    /\ UNCHANGED <<df, cleaned>>
    /\ CleaningFrame

\* a processor that validates the batch after a run of earlier batches
InitSequence ==
    /\ InitResults
    /\ InitNoAggregation
    /\ InitNoDownload
    /\ InitNoPipeline
    /\ InitNoFile
    /\ pc = "loaded"
    /\ raw_headers = <<>>
    /\ schema_name \in SchemaNames
    /\ infer_format \in BOOLEAN
    /\ earlier \in EarlierRuns(MaxEarlier)
    /\ batch \in LaterBatches(schema_name, infer_format, earlier)
    /\ df = batch

\* what a validation of the sequence leaves unchanged
SequenceFrame ==
    UNCHANGED <<raw_headers, headers, schema_name, infer_format, batch, clean2,
                invalid2, altered, fileVars, cleaningVars, downloadVars,
                pipelineVars, aggregateVars>>

\* validate_data_with_schema on the next of the earlier batches, with the
\* schema object of the processor
ValidateEarlier ==
    /\ pc = "loaded"
    /\ done < Len(earlier)
    /\ processor' = AfterValidation(processor, schema_name, earlier[done + 1])
    /\ done' = done + 1
    /\ UNCHANGED <<pc, df, clean, invalid, earlier>>
    /\ SequenceFrame

\* validate_data_with_schema on the batch, after the earlier ones
ValidateLater ==
    /\ pc = "loaded"
    /\ done = Len(earlier)
    /\ LET result == validate_data_with_schema(df, processor.schemas[schema_name],
                                               infer_format)
       IN  /\ df' = result.frame
           /\ clean' = result.clean
           /\ invalid' = result.invalid
    /\ processor' = AfterValidation(processor, schema_name, df)
    /\ pc' = "validated_later"
    /\ UNCHANGED <<earlier, done>>
    /\ SequenceFrame

\* a call of download_report under some environment
InitDownload ==
    /\ InitResults
    /\ InitNoAggregation
    /\ InitNoFile
    /\ InitNoPipeline
    /\ pc = "download"
    /\ raw_headers = <<>>
    /\ schema_name = "scan_report_daily"
    /\ infer_format = TRUE
    /\ batch = NoFrame
    /\ df = NoFrame
    /\ earlier = <<>>
    /\ ftp_max_retries \in EnvInts
    /\ ftp_retry_delay \in EnvFloats
    /\ dl = DownloadStart([kind |-> "unset", num |-> 0],
                          [kind |-> "unset", value |-> Seconds(0)])

\* what the download leaves unchanged
DownloadFrame ==
    UNCHANGED <<raw_headers, headers, schema_name, infer_format, batch, df, clean,
                invalid, clean2, invalid2, altered, fileVars, cleaningVars,
                sequenceVars, ftp_max_retries, ftp_retry_delay, pipelineVars,
                aggregateVars>>

\* download_report up to its first attempt: the environment is read
ReadEnvironment ==
    /\ pc = "download"
    /\ dl' = DownloadStart(ftp_max_retries, ftp_retry_delay)
    /\ pc' = "fetching"
    /\ DownloadFrame

\* one call of _fetch_report, and download_report up to the next call or to
\* its end
FetchReport ==
    /\ pc = "fetching"
    /\ \E outcome \in FetchOutcomes : dl' = Fetched(dl, outcome)
    /\ pc' = CASE dl'.result.type = "none" -> "fetching"
                [] dl'.result.type = "ok" -> "returned"
                [] OTHER -> "raised"
    /\ DownloadFrame

\* a call of run_pipeline
InitPipeline ==
    /\ InitResults
    /\ InitNoAggregation
    /\ InitNoDownload
    /\ file = DefaultFile
    /\ scan_date = NA
    /\ pc = "download"
    /\ raw_headers = <<>>
    /\ schema_name = "scan_report_daily"
    /\ infer_format = TRUE
    /\ batch = NoFrame
    /\ df = NoFrame
    /\ earlier = <<>>
    /\ persist_output \in BOOLEAN
    /\ output_dir = _setup_directories(NoDirectory, persist_output)
    /\ remote \in [Range(ReportSpecs) -> RemoteFiles]
    /\ ftp_wait \in {[kind |-> "unset", value |-> Seconds(0)],
                      [kind |-> "float", value |-> Seconds(0)],
                      [kind |-> "float", value |-> Infinite]}
    /\ run = PipelineStart

\* what the pipeline leaves unchanged
PipelineFrame ==
    UNCHANGED <<raw_headers, headers, schema_name, infer_format, batch, df, clean,
                invalid, clean2, invalid2, altered, fileVars, cleaningVars,
                sequenceVars, downloadVars, remote, ftp_wait, aggregateVars>>

\* the download of the report in turn
RunDownload ==
    /\ pc = "download"
    /\ \E outcome \in DownloadOutcomes(remote[ReportSpecs[run.index]]) :
          run' = DownloadDone(run, outcome)
    /\ pc' = run'.step
    /\ PipelineFrame

\* process_file on the downloaded file
RunProcessFile ==
    /\ pc = "process"
    /\ run' = ProcessDone(run, remote[ReportSpecs[run.index]], persist_output)
    /\ pc' = run'.step
    /\ PipelineFrame

\* the upload of the clean frame, and the wait before the next report
RunUpload ==
    /\ pc = "upload"
    /\ \E outcome \in UploadOutcomes :
          run' = UploadDone(run, outcome, FtpWaitSeconds(ftp_wait))
    /\ pc' = run'.step
    /\ PipelineFrame

\* a call of process_dataset on the source files of a dataset
InitAggregation ==
    /\ InitResults
    /\ InitNoDownload
    /\ InitNoPipeline
    /\ InitNoFile
    /\ pc = "sources"
    /\ raw_headers = <<>>
    /\ schema_name \in DOMAIN SCHEMAS
    /\ infer_format \in BOOLEAN
    /\ batch = NoFrame
    /\ df = NoFrame
    /\ earlier = <<>>
    /\ sources \in SourceRuns
    /\ dry_run \in BOOLEAN
    /\ agg = AggregationStart

\* what the aggregation leaves unchanged
AggregationFrame ==
    UNCHANGED <<raw_headers, headers, schema_name, infer_format, batch, df, clean,
                invalid, clean2, invalid2, altered, fileVars, cleaningVars,
                sequenceVars, downloadVars, pipelineVars, sources, dry_run>>

\* process_dataset up to concatenate_frames: RuntimeError when the dataset
\* has no file, otherwise the files are loaded and combined
LoadDatasetFiles ==
    /\ pc = "sources"
    /\ IF sources = <<>>
       THEN /\ agg' = [agg EXCEPT !.error = NoFilesFound]
            /\ pc' = "failed"
       ELSE /\ agg' = [agg EXCEPT
                          !.combined = concatenate_frames(load_dataset_files(sources))]
            /\ pc' = "combined"
    /\ AggregationFrame

\* combined = enforce_schema_types(combined, dataset, processor)
EnforceSchemaTypes ==
    /\ pc = "combined"
    /\ agg' = [agg EXCEPT
                  !.error = enforce_schema_types(agg.combined, schema_name,
                                                 infer_format).error,
                  !.consolidated = enforce_schema_types(agg.combined, schema_name,
                                                        infer_format).frame]
    /\ pc' = IF agg'.error = NoError THEN "enforced" ELSE "failed"
    /\ AggregationFrame

\* the rest of process_dataset: the consolidated CSV is written (dry run)
\* or uploaded
WriteConsolidated ==
    /\ pc = "enforced"
    /\ IF dry_run
       THEN /\ agg' = [agg EXCEPT !.written = {TargetFilename(schema_name)}]
            /\ pc' = "written"
       ELSE \E outcome \in UploadOutcomes :
               IF outcome = "ok"
               THEN /\ agg' = [agg EXCEPT !.uploaded =
                                  <<[key |-> TargetFilename(schema_name),
                                     body |-> agg.consolidated]>>]
                    /\ pc' = "uploaded"
               ELSE /\ agg' = [agg EXCEPT !.error = UploadFailed]
                    /\ pc' = "failed"
    /\ AggregationFrame

Next ==
    \/ NormalizeColumns
    \/ Validate
    \/ ValidateRoot
    \/ CheckSchemaMain
    \/ Revalidate

Spec == Init /\ [][Next]_vars

\* the calls on a file
NextFiles ==
    \/ ProcessInputFile
    \/ ProcessFile
    \/ ProcessAllFiles

SpecFiles == InitFile /\ [][NextFiles]_vars

\* a processor made and handed a file
NextOutput ==
    \/ Construct
    \/ ProcessFile

SpecOutput == InitConstruct /\ [][NextOutput]_vars

\* the domain cleaning of a loaded frame
NextCleaning ==
    \/ ApplyDomainCleaning
    \/ CleanAgain

SpecCleaning == InitRaw /\ [][NextCleaning]_vars

\* one processor validating batch after batch
NextSequence ==
    \/ ValidateEarlier
    \/ ValidateLater

SpecSequence == InitSequence /\ [][NextSequence]_vars

\* a call of download_report
NextDownload ==
    \/ ReadEnvironment
    \/ FetchReport

SpecDownload == InitDownload /\ [][NextDownload]_vars

\* a call of run_pipeline
NextPipeline ==
    \/ RunDownload
    \/ RunProcessFile
    \/ RunUpload

SpecPipeline == InitPipeline /\ [][NextPipeline]_vars

\* a call of process_dataset
NextAggregation ==
    \/ LoadDatasetFiles
    \/ EnforceSchemaTypes
    \/ WriteConsolidated

SpecAggregation == InitAggregation /\ [][NextAggregation]_vars

\* two runs of validate_data_with_schema on batches that differ in one row
NextPair ==
    \/ Validate
    \/ ValidateAltered

SpecPair == InitBatch /\ [][NextPair]_vars

(***************************************************************************)
(* Properties.                                                             *)
(***************************************************************************)
Validated == pc \in {"validated", "revalidated", "compared"}

InFrame(frame, idx) == \E k \in 1..Len(frame.rows) : frame.rows[k].idx = idx

HasLabel(frame, column) == \E k \in 1..Len(frame.cols) : frame.cols[k] = column

Contains(text, message) == \E p \in 1..Len(text) : text[p] = message

Blank(cell) == IsNA(cell) \/ Strip(cell.text) = <<>>

\* C1: every input row is in exactly one of the clean and the invalid
\* output: the sizes add up to the size of the batch, and no row (by its
\* original position) is in both or in neither.
PartitionComplete ==
    Validated =>
        /\ Len(clean.rows) + Len(invalid.rows) = Len(batch.rows)
        /\ \A i \in 1..Len(batch.rows) :
              InFrame(clean, batch.rows[i].idx) # InFrame(invalid, batch.rows[i].idx)

PartitionCompleteWitness ==
    /\ pc = "validated"
    /\ clean.rows # <<>>
    /\ invalid.rows # <<>>

\* C2: a row is in the clean output if and only if its diagnostic, after
\* the not-null stage, the pattern stage, the type coercion of every column
\* and the trim, is the empty text.
CleanIffEmptyDiagnostic ==
    Validated =>
        \A i \in 1..Len(df.rows) :
            InFrame(clean, df.rows[i].idx) <=> ErrorText(df.rows[i]) = <<>>

CleanIffEmptyDiagnosticWitness ==
    /\ pc = "validated"
    /\ \E i, j \in 1..Len(df.rows) :
          /\ ErrorText(df.rows[i]) = <<>> /\ InFrame(clean, df.rows[i].idx)
          /\ Len(ErrorText(df.rows[j])) > 1 /\ InFrame(invalid, df.rows[j].idx)

\* C3: the clean output has no _error and no _row_number column, also when
\* no row is clean, and the invalid output always has both.
DiagnosticColumnsOnlyInInvalid ==
    Validated =>
        /\ ~HasLabel(clean, "_error") /\ ~HasLabel(clean, "_row_number")
        /\ HasLabel(invalid, "_error") /\ HasLabel(invalid, "_row_number")

\* C4: validate refuses a schema that names a column COLUMN_TYPE_SPEC does
\* not cover: no batch is ever validated against such a schema.
UncoveredSchemaRefused ==
    Validated => ensure_column_type_spec(SchemaOf(schema_name))

\* the message of the type coercion of one entry of COLUMN_TYPE_SPEC
TypeMessageText(spec) ==
    CASE spec.type = "string" -> MaxLengthMessage(spec.column, spec.max_length)[1]
      [] spec.type = "int" -> IntegerMessage(spec.column)[1]
      [] spec.type = "date" -> DateMessage(spec.column)[1]
      [] spec.type = "timestamptz" -> TimestampMessage(spec.column)[1]

\* every message a schema can produce, in the order the claim fixes
FragmentOrder(schema) ==
    ToSeq([k \in 1..Len(schema.not_null) |-> NotNullMessage(schema.not_null[k])[1]])
        \o ToSeq([k \in 1..Len(schema.validations) |->
                     PatternMessage(schema.validations[k].field)[1]])
        \o ToSeq([k \in 1..Len(COLUMN_TYPE_SPEC) |->
                     TypeMessageText(COLUMN_TYPE_SPEC[k])])

Rank(order, message) ==
    IF \E k \in 1..Len(order) : order[k] = message
    THEN CHOOSE k \in 1..Len(order) : order[k] = message
    ELSE 0

\* C5: the diagnostic of a row is its fragments joined by "; ": all
\* not-null fragments in the order of schema.not_null, then all pattern
\* fragments in the order of schema.validations, then all type fragments in
\* the order of COLUMN_TYPE_SPEC, and no trailing separator.
DiagnosticInStageOrder ==
    Validated =>
        \A i \in 1..Len(df.rows) :
            LET text == ErrorText(df.rows[i])
                order == FragmentOrder(SchemaOf(schema_name))
            IN  \/ text = <<>>
                \/ /\ Len(text) % 3 = 1
                   /\ \A p \in 1..Len(text) :
                         /\ p % 3 = 1 => Rank(order, text[p]) # 0
                         /\ p % 3 = 2 => text[p] = ";"
                         /\ p % 3 = 0 => text[p] = " "
                   /\ \A p, q \in 1..Len(text) :
                         (p % 3 = 1 /\ q % 3 = 1 /\ p < q)
                            => Rank(order, text[p]) < Rank(order, text[q])

\* a row with a fragment of each of the three stages
DiagnosticInStageOrderWitness ==
    /\ pc = "validated"
    /\ schema_name = "scan_report_daily"
    /\ \E i \in 1..Len(df.rows) :
          LET text == ErrorText(df.rows[i])
          IN  /\ Len(text) = 7
              /\ text[1] = "NOT NULL violation: scan_date"
              /\ text[4] = "Invalid employee_id (must be 7 digits)"
              /\ text[7] = "Invalid employee_id (max 7 chars)"

\* C6: for a column that is both in not_null and in validations, a row whose
\* value is missing, empty or whitespace-only gets the NOT NULL fragment of
\* the column and never its pattern fragment.
BlankReportedOnce ==
    Validated =>
        LET schema == SchemaOf(schema_name)
        IN  \A i \in 1..Len(batch.rows) :
              \A k \in 1..Len(schema.validations) :
                 LET field == schema.validations[k].field
                 IN  (/\ \E n \in 1..Len(schema.not_null) : schema.not_null[n] = field
                      /\ HasLabel(batch, field)
                      /\ Blank(batch.rows[i].vals[field]))
                     => /\ Contains(ErrorText(df.rows[i]), NotNullMessage(field)[1])
                        /\ ~Contains(ErrorText(df.rows[i]), PatternMessage(field)[1])

\* C7: rows keep their input order inside each output.
InputOrder(frame) ==
    \A a, b \in 1..Len(frame.rows) :
        a < b => Loc(batch, frame.rows[a].idx) < Loc(batch, frame.rows[b].idx)

PartitionKeepsOrder == Validated => InputOrder(clean) /\ InputOrder(invalid)

PartitionKeepsOrderWitness ==
    /\ pc = "validated"
    /\ Len(clean.rows) >= 2

CanonicalNamesDistinct == pc = "normalized" => Distinct(headers)

\* the outcome of the row with index label idx in one run
Outcome(cleanFrame, invalidFrame, idx) ==
    IF InFrame(cleanFrame, idx)
    THEN [part |-> "clean", vals |-> cleanFrame.rows[Loc(cleanFrame, idx)].vals]
    ELSE IF InFrame(invalidFrame, idx)
    THEN [part |-> "invalid", vals |-> invalidFrame.rows[Loc(invalidFrame, idx)].vals]
    ELSE [part |-> "none", vals |-> <<>>]

\* C10: for two batches that differ only in the values of one row, every
\* other row has the same partition, diagnostic and output values in both
\* runs.
RowsIndependent ==
    pc = "compared" =>
        \A j \in 1..Len(batch.rows) :
            j # altered.row =>
                /\ Outcome(clean, invalid, batch.rows[j].idx)
                      = Outcome(altered.clean, altered.invalid, batch.rows[j].idx)
                /\ Outcome(clean, invalid, batch.rows[j].idx).part # "none"

\* C11: the i-th data row of the batch has row number i + 1 (the header is
\* line 1), in the frame and in the invalid output, however many earlier
\* rows went to the clean or to the invalid output.
RowNumberIsOriginalPosition ==
    Validated =>
        /\ \A i \in 1..Len(df.rows) : df.rows[i].vals["_row_number"] = IntV(i + 1)
        /\ \A k \in 1..Len(invalid.rows) :
              \E i \in 1..Len(batch.rows) :
                  /\ batch.rows[i].idx = invalid.rows[k].idx
                  /\ invalid.rows[k].vals["_row_number"] = IntV(i + 1)

\* an invalid row that follows a clean row: its place in the invalid output
\* is 1, its row number is 3
RowNumberIsOriginalPositionWitness ==
    /\ pc = "validated"
    /\ Len(batch.rows) = 2
    /\ InFrame(clean, batch.rows[1].idx)
    /\ Len(invalid.rows) = 1
    /\ invalid.rows[1].idx = batch.rows[2].idx
    /\ invalid.rows[1].vals["_row_number"] = IntV(3)

Processed == pc \in {"input_processed", "file_processed", "all_processed"}

\* the configuration errors of a call on a file: no schema is given and the
\* name resolves to none, or the suffix is not one _load_dataframe reads
ConfigurationError ==
    TargetSchema(schema_name, file) = NoSchema \/ ~Loadable(file)

\* no frame was validated, no output was produced, no file was written
NoOutput ==
    /\ df = NoFrame
    /\ clean = NoFrame /\ invalid = NoFrame
    /\ written = {}

\* C12, as claimed: whichever call processes a file with a configuration
\* error, the error is raised before any row is validated and no output is
\* produced or written.
ConfigurationErrorRaised ==
    Processed /\ ConfigurationError => error # NoError /\ NoOutput

\* C12, amended: process_file raises when no schema is resolvable, and
\* process_file and process_input_file raise for a suffix that is not read,
\* before any row is validated and without output; process_all_files
\* raises for neither: it skips a file without a schema and names it in
\* skipped_files, and does not pick up a file of another suffix at all.
ConfigurationErrorRaisedOrSkipped ==
    /\ pc = "file_processed" =>
          /\ TargetSchema(schema_name, file) = NoSchema =>
                error = NoSchemaDefined /\ NoOutput
          /\ TargetSchema(schema_name, file) # NoSchema /\ ~Loadable(file) =>
                error = UnsupportedExtension /\ NoOutput
          /\ ~ConfigurationError =>
                error = NoError /\ Len(df.rows) = Len(batch.rows)
    /\ pc = "input_processed" =>
          /\ ~Loadable(file) => error = UnsupportedExtension /\ NoOutput
          /\ Loadable(file) => error = NoError /\ Len(df.rows) = Len(batch.rows)
    /\ pc = "all_processed" =>
          /\ error = NoError
          /\ ~Globbed(file) => NoOutput /\ skipped_files = <<>>
          /\ Globbed(file) /\ get_schema_for_file(file) = NoSchema =>
                NoOutput /\ skipped_files = <<FileName(file)>>
          /\ Globbed(file) /\ get_schema_for_file(file) # NoSchema =>
                skipped_files = <<>> /\ Len(df.rows) = Len(batch.rows)

\* process_file has raised for a file with rows whose name has no schema
ConfigurationErrorRaisedOrSkippedWitness ==
    /\ pc = "file_processed"
    /\ error = NoSchemaDefined
    /\ Loadable(file)
    /\ batch.rows # <<>>
    /\ NoOutput

\* C13: a scan_date override replaces exactly the scan_date values that are
\* missing or blank after trimming (the column is created when the file
\* lacks it); every non-blank scan_date and every other column is as loaded;
\* and, the override being applied before validation, a non-blank override
\* leaves no row with "NOT NULL violation: scan_date".
ScanDateOverrideFillsBlanks ==
    pc \in {"input_processed", "file_processed"} /\ error = NoError /\ ~IsNA(scan_date) =>
        /\ Len(df.rows) = Len(batch.rows)
        /\ \A i \in 1..Len(batch.rows) :
              /\ df.rows[i].vals["scan_date"] =
                    IF ~HasLabel(batch, "scan_date")
                    THEN scan_date
                    ELSE IF Blank(batch.rows[i].vals["scan_date"])
                    THEN scan_date
                    ELSE batch.rows[i].vals["scan_date"]
              /\ \A k \in 1..Len(batch.cols) :
                    batch.cols[k] # "scan_date" =>
                        df.rows[i].vals[batch.cols[k]] = batch.rows[i].vals[batch.cols[k]]
              /\ ~Blank(scan_date) =>
                    ~Contains(ErrorText(df.rows[i]), NotNullMessage("scan_date")[1])

\* one row's blank scan_date was filled, another row's date was kept
ScanDateOverrideFillsBlanksWitness ==
    /\ pc = "input_processed"
    /\ error = NoError
    /\ ~IsNA(scan_date) /\ ~Blank(scan_date)
    /\ HasLabel(batch, "scan_date")
    /\ \E i, j \in 1..Len(batch.rows) :
          /\ Blank(batch.rows[i].vals["scan_date"])
          /\ df.rows[i].vals["scan_date"] = scan_date
          /\ InFrame(clean, batch.rows[i].idx)
          /\ ~Blank(batch.rows[j].vals["scan_date"])
          /\ df.rows[j].vals["scan_date"] # scan_date

\* the schema of a finished validation: the root module has its own
RunSchema == IF pc = "validated_root" THEN RootSchema ELSE SchemaOf(schema_name)

\* C14: for every column of schema.not_null and every row, the diagnostic
\* has "NOT NULL violation: <column>" if and only if the value is missing
\* or empty after trimming; a column the batch lacks is missing in every
\* row, so every row is invalid.  Stated for the validation of either
\* module.
NotNullFragmentIffMissing ==
    Validated \/ pc = "validated_root" =>
        \A k \in 1..Len(RunSchema.not_null) :
            \A i \in 1..Len(batch.rows) :
                /\ Contains(ErrorText(df.rows[i]), NotNullMessage(RunSchema.not_null[k])[1])
                      <=> \/ ~HasLabel(batch, RunSchema.not_null[k])
                          \/ Blank(batch.rows[i].vals[RunSchema.not_null[k]])
                /\ ~HasLabel(batch, RunSchema.not_null[k]) =>
                      InFrame(invalid, batch.rows[i].idx)

\* the same for the module src/src/transfer.py alone
NotNullFragmentIffMissingSrc == Validated => NotNullFragmentIffMissing

\* the pattern fragment the claim names for a column
ClaimedPatternText(field) ==
    IF field = "employee_id" THEN "Invalid employee_id (must be 7 digits)"
    ELSE "Invalid " \o field \o " (must be numeric)"

\* the whole text is what the column's pattern describes: seven digits for
\* employee_id, one or more digits for store_id
FullyMatches(field, text) ==
    /\ \A p \in 1..Len(text) : text[p] \in Range(Digits)
    /\ IF field = "employee_id" THEN Len(text) = 7 ELSE Len(text) >= 1

\* the employee_id of the claim's scenario
EmployeeIdWithLetter == Str(<<"1", "2", "a", "4", "5", "6", "7">>)

CoercionTexts == {TypeMessageText(COLUMN_TYPE_SPEC[k]) : k \in 1..Len(COLUMN_TYPE_SPEC)}

\* the number of type fragments in a diagnostic
CoercionFragments(text) ==
    Cardinality({p \in 1..Len(text) : text[p] \in CoercionTexts})

\* whether row i fails the coercion of entry k of COLUMN_TYPE_SPEC when the
\* column is coerced on its own, in a frame that has no other column
FailsAlone(k, i) ==
    ConvertColumnForOutput(
        AddDiagnosticColumns(SelectColumns(batch, <<COLUMN_TYPE_SPEC[k].column>>)),
        COLUMN_TYPE_SPEC[k].column, COLUMN_TYPE_SPEC[k], infer_format
    ).df.rows[i].vals["_error"].text # <<>>

\* the entries of COLUMN_TYPE_SPEC whose column the batch has
TypedColumns == {k \in 1..Len(COLUMN_TYPE_SPEC) : HasLabel(batch, COLUMN_TYPE_SPEC[k].column)}

\* C16: the coercion of a column does not depend on the other columns of
\* the row: a row has the type fragment of a column if and only if the
\* column coerced on its own fails in that row, so a row in which k columns
\* fail has exactly k type fragments.
CoercionPerColumn ==
    Validated =>
        \A i \in 1..Len(batch.rows) :
            /\ \A k \in TypedColumns :
                  Contains(ErrorText(df.rows[i]), TypeMessageText(COLUMN_TYPE_SPEC[k]))
                      <=> FailsAlone(k, i)
            /\ CoercionFragments(ErrorText(df.rows[i]))
                  = Cardinality({k \in TypedColumns : FailsAlone(k, i)})

\* a row in which two columns fail their coercion, after a pattern fragment
\* or without one
CoercionPerColumnWitness ==
    /\ pc = "validated"
    /\ \E i \in 1..Len(batch.rows) :
          /\ CoercionFragments(ErrorText(df.rows[i])) = 2
          /\ Cardinality({k \in TypedColumns : FailsAlone(k, i)}) = 2

\* C17: in the type coercion a value that is missing, empty or
\* whitespace-only is NULL: it gives no type fragment, whatever the type of
\* its column (string, int, date, timestamptz), and the clean output holds
\* a missing value for it.
BlankIsNullInCoercion ==
    Validated =>
        \A i \in 1..Len(batch.rows) :
            \A k \in TypedColumns :
                Blank(batch.rows[i].vals[COLUMN_TYPE_SPEC[k].column]) =>
                    /\ ~Contains(ErrorText(df.rows[i]), TypeMessageText(COLUMN_TYPE_SPEC[k]))
                    /\ (/\ InFrame(clean, batch.rows[i].idx)
                        /\ HasLabel(clean, COLUMN_TYPE_SPEC[k].column))
                          => IsNA(clean.rows[Loc(clean, batch.rows[i].idx)]
                                      .vals[COLUMN_TYPE_SPEC[k].column])

\* a clean row with a whitespace-only int and a whitespace-only timestamp
BlankIsNullInCoercionWitness ==
    /\ pc = "validated"
    /\ \E i \in 1..Len(batch.rows) :
          /\ batch.rows[i].vals["shoe_sold"] = Str(<<" ">>)
          /\ batch.rows[i].vals["created_at"] = Str(<<" ">>)
          /\ InFrame(clean, batch.rows[i].idx)
          /\ IsNA(clean.rows[Loc(clean, batch.rows[i].idx)].vals["shoe_sold"])

\* the text denotes an integer: it parses as a number and every digit of
\* its fraction is zero
DenotesInteger(text) ==
    /\ ParseNumeric(text).ok
    /\ \A p \in 1..Len(ParseNumeric(text).frac) : ParseNumeric(text).frac[p] = "0"

\* C18: for an int column, a present value has "Invalid <column> (must be
\* integer)" if and only if it does not parse as a number or has a non-zero
\* fractional part; otherwise the clean output holds the integer it
\* denotes.
IntegerFragmentIffNotInteger ==
    Validated =>
        \A i \in 1..Len(batch.rows) :
            \A k \in TypedColumns :
                (/\ COLUMN_TYPE_SPEC[k].type = "int"
                 /\ ~Blank(batch.rows[i].vals[COLUMN_TYPE_SPEC[k].column])) =>
                    /\ Contains(ErrorText(df.rows[i]),
                                "Invalid " \o COLUMN_TYPE_SPEC[k].column \o " (must be integer)")
                          <=> ~DenotesInteger(
                                  Strip(batch.rows[i].vals[COLUMN_TYPE_SPEC[k].column].text))
                    /\ (/\ InFrame(clean, batch.rows[i].idx)
                        /\ HasLabel(clean, COLUMN_TYPE_SPEC[k].column))
                          => clean.rows[Loc(clean, batch.rows[i].idx)]
                                 .vals[COLUMN_TYPE_SPEC[k].column]
                               = IntV(DigitsVal(ParseNumeric(
                                     Strip(batch.rows[i].vals[COLUMN_TYPE_SPEC[k].column].text)
                                 ).whole))

\* the value the batch has for a column in the row with index label idx; a
\* column the batch lacks has no value
Loaded(idx, column) ==
    IF HasLabel(batch, column) THEN batch.rows[Loc(batch, idx)].vals[column] ELSE NA

\* the kind of value a type of COLUMN_TYPE_SPEC coerces to
CoercedKind(type) ==
    CASE type = "string" -> "str"
      [] type = "int" -> "int"
      [] type = "date" -> "date"
      [] type = "timestamptz" -> "ts"

\* C19: coerced values are in the clean output only.  An invalid row,
\* whichever stage it failed, has for every column of the schema exactly
\* the value that was loaded; a clean row has for every column of
\* COLUMN_TYPE_SPEC the coerced value: a missing value for a blank, the
\* trimmed text for a string, an integer, a date or a timestamp otherwise.
CoercedOnlyInClean ==
    Validated =>
        /\ \A r \in 1..Len(invalid.rows) :
              \A c \in 1..Len(SchemaOf(schema_name).columns) :
                  HasLabel(batch, SchemaOf(schema_name).columns[c]) =>
                      /\ HasLabel(invalid, SchemaOf(schema_name).columns[c])
                      /\ invalid.rows[r].vals[SchemaOf(schema_name).columns[c]]
                            = Loaded(invalid.rows[r].idx, SchemaOf(schema_name).columns[c])
        /\ \A r \in 1..Len(clean.rows) :
              \A k \in 1..Len(COLUMN_TYPE_SPEC) :
                  HasLabel(clean, COLUMN_TYPE_SPEC[k].column) =>
                      IF Blank(Loaded(clean.rows[r].idx, COLUMN_TYPE_SPEC[k].column))
                      THEN IsNA(clean.rows[r].vals[COLUMN_TYPE_SPEC[k].column])
                      ELSE /\ clean.rows[r].vals[COLUMN_TYPE_SPEC[k].column].kind
                                = CoercedKind(COLUMN_TYPE_SPEC[k].type)
                           /\ COLUMN_TYPE_SPEC[k].type = "string" =>
                                clean.rows[r].vals[COLUMN_TYPE_SPEC[k].column]
                                    = Str(Strip(Loaded(clean.rows[r].idx,
                                                       COLUMN_TYPE_SPEC[k].column).text))

\* a clean row with coerced values next to a row that failed the pattern
\* stage only and keeps its padded text and its uncoerced date
CoercedOnlyInCleanWitness ==
    /\ pc = "validated"
    /\ Len(clean.rows) = 1 /\ Len(invalid.rows) = 1
    /\ clean.rows[1].vals["shoe_sold"].kind = "int"
    /\ clean.rows[1].vals["scan_date"].kind = "date"
    /\ ErrorText(invalid.rows[1]) = <<"Invalid employee_id (must be 7 digits)">>
    /\ invalid.rows[1].vals["safesize_code"] = Str(<<" ", "S", "1", " ">>)
    /\ invalid.rows[1].vals["scan_date"].kind = "str"

IsPrefix(s, t) == Len(s) <= Len(t) /\ SubSeq(t, 1, Len(s)) = s

\* the frame and the conversions after the first n entries of
\* COLUMN_TYPE_SPEC have been handled
RECURSIVE CoercedUpTo(_, _)
CoercedUpTo(typed, n) ==
    IF n = 0 THEN typed
    ELSE LET before == CoercedUpTo(typed, n - 1)
         IN  IF ~HasColumn(before.df, COLUMN_TYPE_SPEC[n].column) THEN before
             ELSE Converted(
                      ConvertColumnForOutput(before.df, COLUMN_TYPE_SPEC[n].column,
                                             COLUMN_TYPE_SPEC[n], infer_format),
                      before.conversions, COLUMN_TYPE_SPEC[n].column)

\* the number of steps of a validation: one per not-null column, one per
\* validation, one per entry of COLUMN_TYPE_SPEC
Steps ==
    Len(SchemaOf(schema_name).not_null) + Len(SchemaOf(schema_name).validations)
        + Len(COLUMN_TYPE_SPEC)

\* the frame of the validation of the batch after its first j steps
Stage(j) ==
    LET schema == SchemaOf(schema_name)
        a == Len(schema.not_null)
        b == Len(schema.validations)
        start == AddDiagnosticColumns(batch)
    IN  IF j <= a THEN CheckNotNull(start, SubSeq(schema.not_null, 1, j), 1)
        ELSE IF j <= a + b
        THEN ApplyValidations(CheckNotNull(start, schema.not_null, 1),
                              SubSeq(schema.validations, 1, j - a), 1)
        ELSE CoercedUpTo(
                 [df |-> ApplyValidations(CheckNotNull(start, schema.not_null, 1),
                                          schema.validations, 1),
                  conversions |-> NoConversions],
                 j - a - b).df

\* C20: the diagnostic is append-only.  After every not-null check, pattern
\* check and column coercion the diagnostic of every row has its previous
\* value as a prefix; the last stage is the frame the call trims, and the
\* trim takes away the trailing separator and nothing else.
DiagnosticAppendOnly ==
    Validated =>
        /\ \A i \in 1..Len(batch.rows) : ErrorText(Stage(0).rows[i]) = <<>>
        /\ \A j \in 1..Steps :
              \A i \in 1..Len(batch.rows) :
                  IsPrefix(ErrorText(Stage(j - 1).rows[i]), ErrorText(Stage(j).rows[i]))
        /\ Stage(Steps) = Checked(batch, SchemaOf(schema_name), infer_format).df
        /\ \A i \in 1..Len(batch.rows) :
              IF ErrorText(Stage(Steps).rows[i]) = <<>>
              THEN ErrorText(df.rows[i]) = <<>>
              ELSE ErrorText(Stage(Steps).rows[i]) = ErrorText(df.rows[i]) \o Separator

\* a row whose diagnostic grew in three stages: not-null, pattern, coercion
DiagnosticAppendOnlyWitness ==
    /\ pc = "validated"
    /\ \E i \in 1..Len(batch.rows) :
          /\ ErrorText(df.rows[i])
                = <<"NOT NULL violation: employee_id", ";", " ",
                    "Invalid employee_id (must be 7 digits)", ";", " ",
                    "Invalid shoe_sold (must be integer)">>

\* the maximal runs of characters of [a-z0-9] in a text, in order
RECURSIVE Words(_, _)
Words(s, word) ==
    IF s = <<>> THEN (IF word = <<>> THEN <<>> ELSE <<word>>)
    ELSE IF IsLowerAlnum(Head(s)) THEN Words(Tail(s), Append(word, Head(s)))
    ELSE (IF word = <<>> THEN <<>> ELSE <<word>>) \o Words(Tail(s), <<>>)

\* the words joined by single underscores
RECURSIVE JoinWords(_)
JoinWords(words) ==
    IF words = <<>> THEN <<>>
    ELSE IF Len(words) = 1 THEN words[1]
    ELSE words[1] \o <<"_">> \o JoinWords(Tail(words))

\* the name the claim gives a raw header: its lower-cased words joined by
\* underscores, replaced by the entry of the alias table when it has one
ClaimedName(raw) ==
    LET joined == JoinWords(Words(LowerText(raw), <<>>))
        entries == {k \in 1..Len(COLUMN_ALIASES) : COLUMN_ALIASES[k].key = joined}
    IN  IF entries = {} THEN joined
        ELSE COLUMN_ALIASES[CHOOSE k \in entries : TRUE].target

\* no underscore at either end and no two underscores in a row
WellFormedName(name) ==
    /\ name # <<>> => name[1] # "_" /\ name[Len(name)] # "_"
    /\ \A p \in 1..(Len(name) - 1) : ~(name[p] = "_" /\ name[p + 1] = "_")

StoreIdName == <<"s", "t", "o", "r", "e", "_", "i", "d">>

\* the three spellings of the claim
StoreIdSpellings ==
    {<<"S", "t", "o", "r", "e", " ", "I", "D">>,
     StoreIdName,
     <<" ", " ", "S", "T", "O", "R", "E", "-", "I", "D", " ", " ">>}

\* C21: a raw header is mapped to its trimmed, lower-cased text with every
\* run of characters outside [a-z0-9] replaced by one underscore and the
\* underscores at the ends removed, then to its alias when it has one.  The
\* name has no underscore at either end and no two in a row; "Store ID",
\* "store_id" and "  STORE-ID  " give store_id.  (A header whose name was
\* taken by an earlier column carries a counter after that name.)
HeaderNormalized ==
    pc = "normalized" =>
        /\ Len(headers) = Len(raw_headers)
        /\ \A k \in 1..Len(raw_headers) :
              /\ WellFormedName(ClaimedName(raw_headers[k]))
              /\ IsPrefix(ClaimedName(raw_headers[k]), headers[k])
              /\ (\A j \in 1..(k - 1) :
                      ClaimedName(raw_headers[j]) # ClaimedName(raw_headers[k]))
                    => headers[k] = ClaimedName(raw_headers[k])
              /\ raw_headers[k] \in StoreIdSpellings =>
                    ClaimedName(raw_headers[k]) = StoreIdName

\* "  STORE-ID  " became store_id, a header in brackets lost them, and a
\* header was replaced by its alias
HeaderNormalizedWitness ==
    /\ pc = "normalized"
    /\ raw_headers = <<<<" ", " ", "S", "T", "O", "R", "E", "-", "I", "D", " ", " ">>,
                       <<"(", "M", "e", "m", "o", "?", ")">>,
                       <<"S", "S", "P", "C">>>>
    /\ headers = <<StoreIdName, <<"m", "e", "m", "o">>,
                   <<"p", "o", "i", "n", "t", "_", "c", "a", "r", "d", "_", "i", "d">>>>

\* the characters the cleaning of a store identifier keeps of a text in
\* ASCII form, in one pass: parentheses and whitespace are left out, and a
\* zero is left out as long as nothing was kept before it
RECURSIVE KeptOfStoreId(_, _)
KeptOfStoreId(text, started) ==
    IF text = <<>> THEN <<>>
    ELSE IF Head(text) \in {"(", ")"} \cup Whitespace \/ (Head(text) = "0" /\ ~started)
    THEN KeptOfStoreId(Tail(text), started)
    ELSE <<Head(text)>> \o KeptOfStoreId(Tail(text), TRUE)

Cleansed == pc \in {"cleaned", "recleaned"}

StoreIdOf(frame, i) == frame.rows[i].vals["store_id"]

\* C22: store-identifier cleaning leaves a missing or blank value missing;
\* otherwise the result is the value trimmed, in ASCII form, without
\* parentheses, without whitespace and then without leading zeros, and
\* missing when nothing is left ("000" becomes missing); the result never
\* has a leading zero, a parenthesis or whitespace, and cleaning a cleaned
\* value returns it unchanged.
StoreIdCleaned ==
    Cleansed /\ HasColumn(batch, "store_id") =>
        \A i \in 1..Len(batch.rows) :
            /\ Blank(StoreIdOf(batch, i)) => IsNA(StoreIdOf(cleaned, i))
            /\ ~Blank(StoreIdOf(batch, i)) =>
                   StoreIdOf(cleaned, i)
                       = TextOrNA(KeptOfStoreId(NFKC(StoreIdOf(batch, i).text), FALSE))
            /\ StoreIdOf(batch, i) = Str(<<"0", "0", "0">>) =>
                   IsNA(StoreIdOf(cleaned, i))
            /\ ~IsNA(StoreIdOf(cleaned, i)) =>
                   /\ StoreIdOf(cleaned, i).kind = "str"
                   /\ StoreIdOf(cleaned, i).text # <<>>
                   /\ Head(StoreIdOf(cleaned, i).text) # "0"
                   /\ \A p \in 1..Len(StoreIdOf(cleaned, i).text) :
                          StoreIdOf(cleaned, i).text[p]
                              \notin {"(", ")"} \cup Whitespace
            /\ pc = "recleaned" => StoreIdOf(recleaned, i) = StoreIdOf(cleaned, i)

CleanedColumns == {"store_id", "scanner_id"}

\* C23: domain cleaning rewrites only the store_id and scanner_id columns,
\* and only when they are present: a scanner_id is trimmed and is missing
\* when it was missing or is empty after trimming; every other column, the
\* number of rows and their order are unchanged, and the frame handed in is
\* not modified.
DomainCleaningFrame ==
    Cleansed =>
        /\ df = batch
        /\ cleaned.cols = batch.cols
        /\ Len(cleaned.rows) = Len(batch.rows)
        /\ \A i \in 1..Len(batch.rows) :
              /\ cleaned.rows[i].idx = batch.rows[i].idx
              /\ DOMAIN cleaned.rows[i].vals = DOMAIN batch.rows[i].vals
              /\ \A c \in Range(batch.cols) \ CleanedColumns :
                     cleaned.rows[i].vals[c] = batch.rows[i].vals[c]
              /\ HasColumn(batch, "scanner_id") =>
                     cleaned.rows[i].vals["scanner_id"]
                         = IF Blank(batch.rows[i].vals["scanner_id"]) THEN NA
                           ELSE Str(Strip(batch.rows[i].vals["scanner_id"].text))

\* a padded scanner_id is trimmed while a memo with blanks, parentheses and
\* a leading zero is kept as it was
DomainCleaningFrameWitness ==
    /\ pc = "cleaned"
    /\ batch.cols = <<"store_id", "scanner_id", "memo">>
    /\ Len(batch.rows) = 2
    /\ batch.rows[1].vals["scanner_id"] = Str(<<" ", "S", "1", " ">>)
    /\ cleaned.rows[1].vals["scanner_id"] = Str(<<"S", "1">>)
    /\ batch.rows[2].vals["memo"] = Str(<<" ", "(", "0", "1", ")", " ">>)
    /\ cleaned.rows[2].vals["memo"] = Str(<<" ", "(", "0", "1", ")", " ">>)

DownloadEnded == pc \in {"returned", "raised"}

\* the number of attempts the claim allows
ClaimedAttempts ==
    IF ftp_max_retries.kind = "int"
    THEN (IF ftp_max_retries.num > 1 THEN ftp_max_retries.num ELSE 1)
    ELSE 3

LastOf(seq) == seq[Len(seq)]

\* C25: download_report makes at least one and at most
\* max(1, FTP_MAX_RETRIES) attempts (3 when the variable is unset or not an
\* integer): it returns at the first successful attempt without further
\* attempts, raises FileNotFoundError at once without retrying, retries any
\* other error until the attempts are used up, and then raises the error of
\* the last attempt.
DownloadRetries ==
    /\ pc \in {"fetching", "returned", "raised"} =>
          /\ Len(dl.attempts) <= ClaimedAttempts
          /\ \A k \in 1..Len(dl.attempts) : dl.attempts[k].attempt = k
          /\ \A k \in 1..(Len(dl.attempts) - 1) :
                 dl.attempts[k].type \notin {"ok", "FileNotFoundError"}
    /\ DownloadEnded => Len(dl.attempts) >= 1
    /\ pc = "returned" => LastOf(dl.attempts).type = "ok"
    /\ pc = "raised" =>
          /\ dl.result = LastOf(dl.attempts)
          /\ dl.result.type # "ok"
          /\ dl.result.type # "FileNotFoundError" =>
                 Len(dl.attempts) = ClaimedAttempts

\* the calls of _fetch_report made in attempt a, in the order made
FetchesOf(a) == SelectSeq(dl.fetches, LAMBDA f : f.attempt = a)

ClaimedModes ==
    <<[use_epsv |-> FALSE, passive |-> TRUE],
      [use_epsv |-> FALSE, passive |-> FALSE],
      [use_epsv |-> TRUE, passive |-> TRUE]>>

\* C26: within one attempt, _download_report_once tries the transfer modes
\* in the order (EPSV off, passive), (EPSV off, active), (EPSV on, passive);
\* it moves to the next mode only after a protocol error whose text contains
\* "Extended Passive Mode", stops at the first mode that succeeds, lets any
\* other error through at once, and raises the last protocol error when all
\* three modes have failed.
TransferModesInOrder ==
    pc \in {"fetching", "returned", "raised"} =>
        \A a \in 1..dl.attempt :
            /\ Len(FetchesOf(a)) <= Len(ClaimedModes)
            /\ \A k \in 1..Len(FetchesOf(a)) :
                  /\ Modes[FetchesOf(a)[k].mode] = ClaimedModes[k]
                  /\ k < Len(FetchesOf(a)) => FetchesOf(a)[k].type = EpsvError
            /\ a <= Len(dl.attempts) =>
                  /\ FetchesOf(a) # <<>>
                  /\ dl.attempts[a] = LastOf(FetchesOf(a))
                  /\ LastOf(FetchesOf(a)).type = EpsvError =>
                         Len(FetchesOf(a)) = Len(ClaimedModes)
            /\ a > Len(dl.attempts) =>
                  \A k \in 1..Len(FetchesOf(a)) : FetchesOf(a)[k].type = EpsvError

\* a first attempt in which all three modes failed with the protocol error,
\* and a second that succeeded in the second mode
TransferModesInOrderWitness ==
    /\ pc = "returned"
    /\ Len(dl.attempts) = 2
    /\ Len(FetchesOf(1)) = 3
    /\ dl.attempts[1] = [type |-> EpsvError, attempt |-> 1, mode |-> 3]
    /\ Len(FetchesOf(2)) = 2
    /\ dl.attempts[2] = [type |-> "ok", attempt |-> 2, mode |-> 2]

StepRank(step) ==
    CASE step = "download" -> 1
      [] step = "process" -> 2
      [] step = "upload" -> 3
      [] step = "wait" -> 4

ReportRank(report) == CHOOSE k \in 1..Len(ReportSpecs) : ReportSpecs[k] = report

Piped == pc \in {"download", "process", "upload", "finished", "failed"}

\* the step of the report is in the log, and it went well
WentWell(report, step, before) ==
    \E i \in 1..(before - 1) :
        run.log[i] = [report |-> report, step |-> step, outcome |-> "ok"]

\* C27: run_pipeline handles the reports in order (daily, then weekly) and
\* for each performs download, then validation, then upload: a report is
\* uploaded only after its own download and validation succeeded, and a
\* failure in a step of the daily report stops the run, so that the weekly
\* report is neither downloaded nor uploaded.
PipelineInOrder ==
    Piped =>
        /\ ReportSpecs = <<"scan_report_daily", "scan_report_weekly">>
        /\ \A i, j \in 1..Len(run.log) :
              i < j =>
                  \/ ReportRank(run.log[i].report) < ReportRank(run.log[j].report)
                  \/ /\ run.log[i].report = run.log[j].report
                     /\ StepRank(run.log[i].step) < StepRank(run.log[j].step)
        /\ \A j \in 1..Len(run.log) :
              run.log[j].step = "upload" =>
                  /\ WentWell(run.log[j].report, "download", j)
                  /\ WentWell(run.log[j].report, "process", j)
        /\ \A k \in 1..Len(run.uploads) :
              \E j \in 1..Len(run.log) :
                  run.log[j] = [report |-> run.uploads[k].report, step |-> "upload",
                                outcome |-> "ok"]
        /\ \A i \in 1..Len(run.log) :
              run.log[i].report = "scan_report_daily" /\ run.log[i].outcome # "ok" =>
                  /\ pc = "failed"
                  /\ \A j \in 1..Len(run.log) :
                         run.log[j].report # "scan_report_weekly"
                  /\ \A k \in 1..Len(run.uploads) :
                         run.uploads[k].report # "scan_report_weekly"

\* both reports went through the three steps, the weekly report after the
\* daily one
PipelineInOrderWitness ==
    /\ pc = "finished"
    /\ Len(run.log) = 6
    /\ Len(run.uploads) = 2
    /\ run.uploads[1].report = "scan_report_daily"
    /\ run.uploads[2].report = "scan_report_weekly"
    /\ Len(run.uploads[1].body.rows) = 1

\* the columns a diagnostic of the run can name
NamedColumns ==
    Range(batch.cols) \cup Range(SchemaOf(schema_name).columns)
        \cup Range(SchemaOf(schema_name).not_null) \cup TypeSpecColumns

\* the messages that name the column
MessagesNaming(column) ==
    {NotNullMessage(column)[1], PatternMessage(column)[1]}
        \cup {TypeMessageText(COLUMN_TYPE_SPEC[k]) :
                 k \in {j \in 1..Len(COLUMN_TYPE_SPEC) :
                           COLUMN_TYPE_SPEC[j].column = column}}

\* C28: every column named in the diagnostic of an invalid row is one of
\* the columns of the invalid output: no row is made invalid by a not-null,
\* pattern or type failure on a column that the output does not show.
DiagnosticNamesShownColumns ==
    Validated =>
        \A k \in 1..Len(invalid.rows) :
            \A c \in NamedColumns :
                (\E m \in MessagesNaming(c) : Contains(ErrorText(invalid.rows[k]), m))
                    => HasLabel(invalid, c)
(***************************************************************************)
(* C29.  Historical aggregation is all-or-nothing.  When a row of the      *)
(* combined frame is invalid under the schema of the dataset,              *)
(* enforce_schema_types raises and process_dataset writes no consolidated  *)
(* CSV and uploads none; a consolidated file is written or uploaded only   *)
(* when every combined row is clean, and it has all the rows of all the    *)
(* source files, in the order of the files.                                *)
(***************************************************************************)
RECURSIVE SourceRows(_)
SourceRows(k) ==
    IF k > Len(sources) THEN 0 ELSE Len(sources[k].frame.rows) + SourceRows(k + 1)

Produced == agg.written # {} \/ agg.uploaded # <<>>

CombinedInvalid ==
    validate_data_with_schema(agg.combined, SCHEMAS[schema_name], infer_format).invalid.rows

AggregationAllOrNothing ==
    pc \in {"failed", "enforced", "written", "uploaded"} /\ agg.combined # NoFrame =>
        /\ CombinedInvalid # <<>> =>
               /\ pc = "failed"
               /\ agg.error = InvalidRowsDetected
               /\ agg.consolidated = NoFrame
               /\ ~Produced
        /\ Produced =>
               /\ CombinedInvalid = <<>>
               /\ Len(agg.combined.rows) = SourceRows(1)
               /\ Len(agg.consolidated.rows) = SourceRows(1)
               /\ \A i \in 1..Len(agg.consolidated.rows) :
                      agg.consolidated.rows[i].idx = i - 1

\* two source files with a clean row and an invalid row between them:
\* the aggregation has failed and produced nothing
AggregationAllOrNothingWitness ==
    /\ pc = "failed"
    /\ Len(sources) = 2
    /\ Len(agg.combined.rows) = 2
    /\ Len(CombinedInvalid) = 1
    /\ agg.error = InvalidRowsDetected
    /\ ~Produced

(***************************************************************************)
(* C30.  process_file writes files only when persist_output is true.  With *)
(* persist_output false neither the making of the processor nor the call   *)
(* changes the output directory, no file is written and both returned      *)
(* paths are None.  With persist_output true the clean file is written if  *)
(* and only if the clean output is not empty, the invalid file if and only *)
(* if the invalid output is not empty, and a returned path is not None     *)
(* exactly when its file was written.                                      *)
(***************************************************************************)
NotEmpty(frame) == frame.rows # <<>> /\ frame.cols # <<>>

CleanFile == file.stem \o "_clean.csv"

InvalidFile == file.stem \o "_invalid.csv"

ProcessFileReturns == pc = "file" /\ pc' = "file_processed" /\ error' = NoError

PersistStep ==
    /\ ~persist_output =>
          /\ output_dir' = output_dir
          /\ written' = {}
          /\ returned'.clean_output_path = NoPath
          /\ returned'.invalid_output_path = NoPath
    /\ persist_output /\ ProcessFileReturns =>
          /\ written' \subseteq {CleanFile, InvalidFile}
          /\ CleanFile \in written' <=> NotEmpty(clean')
          /\ InvalidFile \in written' <=> NotEmpty(invalid')
          /\ returned'.clean_output_path # NoPath <=> CleanFile \in written'
          /\ returned'.invalid_output_path # NoPath <=> InvalidFile \in written'
          /\ returned'.clean_output_path \in {NoPath, CleanFile}
          /\ returned'.invalid_output_path \in {NoPath, InvalidFile}
          /\ output_dir'.files = written'

PersistOnlyWhenAsked == [][PersistStep]_vars

\* a processor that does not persist has been made beside the outputs of an
\* earlier run and has processed a file with a clean and an invalid row:
\* the directory is as it was and no path is returned
PersistOnlyWhenAskedWitness ==
    /\ pc = "file_processed"
    /\ error = NoError
    /\ ~persist_output
    /\ clean.rows # <<>>
    /\ invalid.rows # <<>>
    /\ output_dir.files = {"scan_report_daily_clean.csv", "old_invalid.csv"}
    /\ written = {}
    /\ returned.clean_output_path = NoPath

====
